---- MODULE Spec2Model ----
(***************************************************************************)
(* A model of rasa/nlu/classifiers/diet_classifier.py: the DIETClassifier  *)
(* component (label index, entity tag specs, train, process) and the DIET  *)
(* model it drives (loss terms, prediction keys, the all-labels cache).    *)
(*                                                                         *)
(* Representation.                                                         *)
(*   Text values are TLA+ strings; Python's None in a Text position is the *)
(*   string None.  An Optional[object] is a sequence of length <= 1:       *)
(*   NoneObj is Python's None, Some(x) an object.  A Python dict is the    *)
(*   set of its <<key, value>> pairs.  A float score is a rational         *)
(*   [num, den] so that the division in normalize is exact.                *)
(***************************************************************************)
EXTENDS Integers, Sequences, FiniteSets, TLC

VARIABLES
    component_config,        \* DIETClassifier.component_config (the options read here)
    index_label_id_mapping,  \* DIETClassifier.index_label_id_mapping
    entity_tag_specs,        \* DIETClassifier._entity_tag_specs
    model,                   \* DIETClassifier.model (a DIET instance or None)
    label_data,              \* DIETClassifier._label_data
    data_example,            \* DIETClassifier._data_example
    finetune_mode,           \* DIETClassifier.finetune_mode
    training_data,           \* the TrainingData of the call in last_call, if it takes one
    message,                 \* the Message handed to process (None before the first)
    process_calls,           \* the process calls made on that message so far
    train_calls,             \* the train calls made on the component so far
    persisted,               \* the model directory and the metadata persist left
    hash_seed,               \* PYTHONHASHSEED of the process the component runs in
    last_call                \* the last step of the pipeline and how it ended

vars == << component_config, index_label_id_mapping, entity_tag_specs, model,
           label_data, data_example, finetune_mode, training_data, message,
           process_calls, train_calls, persisted, hash_seed, last_call >>

----------------------------------------------------------------------------
(* Bounds of the model.                                                    *)

MaxExamples == 3        \* examples in a corpus given to preprocess_train_data
NumIntents == 2         \* distinct intent names in those corpora
NumTags == 2            \* distinct real entity types in those corpora
MaxTrainExamples == 2   \* examples in a corpus given to train in the lifecycle
MaxTrainScore == 1      \* similarity scores of a model trained in the lifecycle
MaxProcessCalls == 2    \* process calls on one message
MaxTrainCalls == 2      \* train calls on one component
MaxScore == 2           \* similarity scores when ranking is checked on its own
MaxLabels == 5          \* candidate labels when ranking is checked on its own
MaxRankingLength == 3   \* RANKING_LENGTH is 0..MaxRankingLength
MaxUpstream == 1        \* entities attached to a message by upstream extractors
MaxPredicted == 1       \* entities DIET decodes from one message
MaxHeadTags == 1        \* real tags of a tag spec given to DIET directly
MaxHiddenLayers == 1     \* hidden layers per attribute in HIDDEN_LAYERS_SIZES
MaxRows == 2            \* first dimension of a feature array of a message
MaxTransformerLayers == 1  \* NUM_TRANSFORMER_LAYERS is 0..MaxTransformerLayers
MaxBatch == 2           \* examples of a batch given to _mask_loss
MaxUnits == 2           \* units of the text features where they are compared
MaxTokens == 3          \* positions of an example in that batch

----------------------------------------------------------------------------
(* Values.                                                                 *)

None == "None"
NoneObj == << >>
Some(x) == << x >>

NO_ENTITY_TAG == "O"
ENTITY_ATTRIBUTE_TYPE == "entity"
ENTITY_ATTRIBUTE_ROLE == "role"
ENTITY_ATTRIBUTE_GROUP == "group"
POSSIBLE_TAGS == << ENTITY_ATTRIBUTE_TYPE, ENTITY_ATTRIBUTE_ROLE, ENTITY_ATTRIBUTE_GROUP >>
SOFTMAX == "softmax"
LINEAR_NORM == "linear_norm"
LABEL_RANKING_LENGTH == 10

\* The strings of the model in the order of Python's str comparison
\* (code points: digits, then upper case, then lower case).
StrOrder ==
    << "", "1", "2", "3", "LOC", "O", "PER", "affirm", "bye", "city", "deny",
       "entities", "entity", "from", "greet", "group", "ids", "label", "mood",
       "role", "sentence", "sequence", "sequence_lengths", "text", "thanks",
       "to", "via" >>

StrRank(s) == CHOOSE i \in DOMAIN StrOrder : StrOrder[i] = s

StrLeq(a, b) == StrRank(a) <= StrRank(b)

\* sorted(S) for a set of strings.
RECURSIVE sorted(_)
sorted(S) ==
    IF S = {} THEN << >>
    ELSE LET m == CHOOSE x \in S : \A y \in S : StrLeq(x, y)
         IN  << m >> \o sorted(S \ {m})

Range(s) == { s[i] : i \in DOMAIN s }

\* dict accessors
Keys(d) == { p[1] : p \in d }
Values(d) == { p[2] : p \in d }
HasKey(d, k) == \E p \in d : p[1] = k
Get(d, k) == (CHOOSE p \in d : p[1] = k)[2]

\* {x: idx for idx, x in enumerate(seq, start)}
EnumerateDict(seq, start) == { << seq[i], i - 1 + start >> : i \in DOMAIN seq }

\* bool(x) for a Text value: None and the empty string are falsy.
Truthy(text) == text # None /\ text # ""

----------------------------------------------------------------------------
(* TrainingData, as far as DIETClassifier reads it.                        *)
(*   nlu_examples   sequence of Messages.  A Message is a record: a field  *)
(*     for each key of Message.data that is read here (intent, if the      *)
(*     message has the key, with a Text or None), and the field features:  *)
(*     text, the units of the dense sentence and sequence features of the  *)
(*     text, and intent, the dense sentence features of the intent (a row  *)
(*     of numbers) or None if no featurizer has featurized the intent      *)
(*   entities, entity_roles, entity_groups   the distinct tags of the      *)
(*   corpus per entity attribute                                           *)

INTENT == "intent"

\* Message.get(attribute): the value under the key, None without the key
get(example, attribute) ==
    IF attribute \in DOMAIN example THEN example[attribute] ELSE None

\* TrainingData.intent_examples: the examples whose intent is set.
IntentExamples(td) ==
    LET IsIntentExample(ex) == Truthy(get(ex, INTENT))
    IN  SelectSeq(td.nlu_examples, IsIntentExample)

----------------------------------------------------------------------------
(* Label index and entity tag specs.                                       *)

LabelIdIndexMappingFromOne(td) ==
    LET distinct_label_ids == { get(ex, INTENT) : ex \in Range(IntentExamples(td)) } \ {None}
    IN  EnumerateDict(sorted(distinct_label_ids), 1)

\* DIETClassifier._label_id_index_mapping with attribute = INTENT
_label_id_index_mapping(td) ==
    LET distinct_label_ids == { get(ex, INTENT) : ex \in Range(IntentExamples(td)) } \ {None}
    IN  EnumerateDict(sorted(distinct_label_ids), 0)

\* DIETClassifier._invert_mapping
_invert_mapping(mapping) == { << p[2], p[1] >> : p \in mapping }

\* the distinct tags TrainingData reports for an entity attribute
DistinctTagsOf(tag_name, td) ==
    IF tag_name = ENTITY_ATTRIBUTE_ROLE THEN td.entity_roles
    ELSE IF tag_name = ENTITY_ATTRIBUTE_GROUP THEN td.entity_groups
    ELSE td.entities

TagIdIndexMappingSortedWithNoEntity(tag_name, td) ==
    LET distinct_tags == DistinctTagsOf(tag_name, td) \ {None}
    IN  IF distinct_tags \ {NO_ENTITY_TAG} = {} THEN NoneObj
        ELSE Some(EnumerateDict(sorted(distinct_tags \cup {NO_ENTITY_TAG}), 0))

\* DIETClassifier._tag_id_index_mapping_for
_tag_id_index_mapping_for(tag_name, td) ==
    LET distinct_tags == (DistinctTagsOf(tag_name, td) \ {NO_ENTITY_TAG}) \ {None}
    IN  IF distinct_tags = {} THEN NoneObj
        ELSE Some(EnumerateDict(sorted(distinct_tags), 1) \cup { << NO_ENTITY_TAG, 0 >> })

BILOU_PREFIXES == << "B-", "I-", "L-", "U-" >>

\* bilou_utils.build_tag_id_dict: every real tag expands to its four
\* prefixed tags, numbered tag by tag after the no-entity tag 0.
build_tag_id_dict(td, tag_name) ==
    LET distinct_tags == (DistinctTagsOf(tag_name, td) \ {NO_ENTITY_TAG}) \ {None}
        tags == sorted(distinct_tags)
    IN  IF distinct_tags = {} THEN NoneObj
        ELSE Some({ << BILOU_PREFIXES[j] \o tags[i],
                       (i - 1) * Len(BILOU_PREFIXES) + (j - 1) + 1 >> :
                         i \in DOMAIN tags, j \in DOMAIN BILOU_PREFIXES }
                  \cup { << NO_ENTITY_TAG, 0 >> })

\* EntityTagSpec(tag_name, tags_to_ids, ids_to_tags, num_tags)
EntityTagSpec(tag_name, tag_id_index_mapping) ==
    [ tag_name    |-> tag_name,
      tags_to_ids |-> tag_id_index_mapping,
      ids_to_tags |-> _invert_mapping(tag_id_index_mapping),
      num_tags    |-> Cardinality(tag_id_index_mapping) ]

\* the mapping _create_entity_tag_specs builds for one tag name
TagIdIndexMapping(config, tag_name, td) ==
    IF config.BILOU_FLAG THEN build_tag_id_dict(td, tag_name)
    ELSE _tag_id_index_mapping_for(tag_name, td)

CreateEntityTagSpecsAlways(config, td) ==
    LET SpecFor(tag_name) ==
            LET m == TagIdIndexMapping(config, tag_name, td)
            IN  EntityTagSpec(tag_name, IF m = NoneObj THEN {} ELSE m[1])
    IN  [ i \in DOMAIN POSSIBLE_TAGS |-> SpecFor(POSSIBLE_TAGS[i]) ]

\* DIETClassifier._create_entity_tag_specs
_create_entity_tag_specs(config, td) ==
    LET RECURSIVE Build(_)
        Build(i) ==
            IF i > Len(POSSIBLE_TAGS) THEN << >>
            ELSE LET tag_name == POSSIBLE_TAGS[i]
                     m == TagIdIndexMapping(config, tag_name, td)
                 IN  IF m # NoneObj /\ m[1] # {}
                     THEN << EntityTagSpec(tag_name, m[1]) >> \o Build(i + 1)
                     ELSE Build(i + 1)
    IN  Build(1)

----------------------------------------------------------------------------
(* Scores and the intent ranking (DIETClassifier._predict_label).          *)

Rat(n, d) == [ num |-> n, den |-> d ]
RatLess(a, b) == a.num * b.den < b.num * a.den
RatEq(a, b) == a.num * b.den = b.num * a.den
RatLeq(a, b) == a.num * b.den <= b.num * a.den

Reverse(s) == [ i \in 1..Len(s) |-> s[Len(s) + 1 - i] ]

RECURSIVE SumNum(_)
SumNum(s) == IF s = << >> THEN 0 ELSE Head(s).num + SumNum(Tail(s))

\* the values of s in ascending order (an in-place sort of the values)
RECURSIVE SortAsc(_)
SortAsc(s) ==
    IF s = << >> THEN << >>
    ELSE LET i == CHOOSE k \in DOMAIN s : \A j \in DOMAIN s : RatLeq(s[k], s[j])
             rest == [ j \in 1..(Len(s) - 1) |-> IF j < i THEN s[j] ELSE s[j + 1] ]
         IN  << s[i] >> \o SortAsc(rest)

\* ndarray.argsort(): the 0-based positions of s in ascending order of value.
\* Up to 16 elements numpy's default sort is an insertion sort, which keeps
\* equal values in their original order.
ArgsortFrom(s, left) ==
    LET RECURSIVE Pick(_)
        Pick(todo) ==
            IF todo = {} THEN << >>
            ELSE LET i == CHOOSE k \in todo :
                              \A j \in todo :
                                  \/ RatLess(s[k], s[j])
                                  \/ RatEq(s[k], s[j]) /\ k <= j
                 IN  << i - 1 >> \o Pick(todo \ {i})
    IN  Pick(left)

argsort(s) == ArgsortFrom(s, DOMAIN s)

\* new_values[new_values < threshold] = 0
ZeroBelow(values, threshold) ==
    [ i \in DOMAIN values |->
        IF RatLess(values[i], threshold) THEN Rat(0, 1) ELSE values[i] ]

\* new_values / np.sum(new_values), if the sum is positive
DivideBySum(values, total) ==
    IF total > 0
    THEN [ i \in DOMAIN values |-> Rat(values[i].num, total) ]
    ELSE values

\* the values of normalize before the division; the scores are whole
\* numbers, so the sum of the fractions is the sum of the numerators
KeepTop(values, ranking_length) ==
    IF 0 < ranking_length /\ ranking_length < Len(values)
    THEN ZeroBelow(values, Reverse(SortAsc(values))[ranking_length])
    ELSE values

SumAndDivide(values) == DivideBySum(values, SumNum(values))

\* train_utils.normalize(values, ranking_length): zero what is below the
\* ranking_length-th largest value, then divide by the sum if it is positive.
normalize(values, ranking_length) == SumAndDivide(KeepTop(values, ranking_length))

\* hash(str): 0 for the empty string, else a function of the string that
\* is fixed within one Python process and differs from process to process
\* (string hashes are salted with PYTHONHASHSEED)
hash(s) == IF s = "" THEN 0 ELSE 31 * StrRank(s) + 1009 * hash_seed + 7

NoLabel == [ name |-> None, id |-> NoneObj, confidence |-> Rat(0, 1) ]

Label(mapping, label_idx, score) ==
    [ name |-> Get(mapping, label_idx),
      id |-> Some(hash(Get(mapping, label_idx))),
      confidence |-> score ]

Take(s, n) == SubSeq(s, 1, IF n < Len(s) THEN n ELSE Len(s))

OutputLengthIgnoringRankingLength(config) == LABEL_RANKING_LENGTH

\* lines 915-921: how many ranking entries are exposed
OutputLength(config) ==
    IF config.RANKING_LENGTH # 0
       /\ 0 < config.RANKING_LENGTH /\ config.RANKING_LENGTH < LABEL_RANKING_LENGTH
    THEN config.RANKING_LENGTH
    ELSE LABEL_RANKING_LENGTH

LabelIdsAscending(message_sim) == argsort(message_sim)

\* line 893: label_ids = message_sim.argsort()[::-1]
LabelIds(message_sim) == Reverse(argsort(message_sim))

ConfidencesUnsorted(config, message_sim) ==
    IF config.RANKING_LENGTH > 0 /\ config.MODEL_CONFIDENCE = SOFTMAX
    THEN normalize(message_sim, config.RANKING_LENGTH)
    ELSE message_sim

\* lines 895-905: the confidences, largest first
Confidences(config, message_sim) ==
    Reverse(SortAsc(IF config.RANKING_LENGTH > 0 /\ config.MODEL_CONFIDENCE = SOFTMAX
                    THEN normalize(message_sim, config.RANKING_LENGTH)
                    ELSE message_sim))

\* lines 923-924: list(zip(label_ids, message_sim))[:output_length]
Ranking(label_ids, message_sim, output_length) ==
    Take([ i \in DOMAIN label_ids |-> << label_ids[i], message_sim[i] >> ],
         output_length)

NoPrediction == [ raised |-> FALSE, label |-> NoLabel, label_ranking |-> << >> ]
KeyError == [ raised |-> TRUE, label |-> NoLabel, label_ranking |-> << >> ]

\* lines 908-934: the label and the ranking; the lookup of a label id that
\* index_label_id_mapping does not have raises KeyError
LabelAndRanking(mapping, label_ids, message_sim, ranking) ==
    IF Len(label_ids) = 0 THEN NoPrediction
    ELSE IF mapping = NoneObj
            \/ \E i \in DOMAIN ranking : ~HasKey(mapping[1], ranking[i][1])
    THEN KeyError
    ELSE [ raised |-> FALSE,
           label |-> Label(mapping[1], label_ids[1], message_sim[1]),
           label_ranking |->
               [ i \in DOMAIN ranking |->
                   Label(mapping[1], ranking[i][1], ranking[i][2]) ] ]

\* lines 893-934, from the flattened scores on
RankLabels(config, mapping, label_ids, message_sim) ==
    LabelAndRanking(mapping, label_ids, message_sim,
                    Ranking(label_ids, message_sim, OutputLength(config)))

\* message_sim.flatten(), as exact fractions
Flatten(scores) == [ i \in DOMAIN scores |-> Rat(scores[i], 1) ]

\* DIETClassifier._predict_label.  predict_out is NoneObj or Some(out) with
\* out.i_scores the sequence of scores by label id (NoneObj if not scored);
\* mapping is index_label_id_mapping.  The result says whether the call
\* raised KeyError.
_predict_label(config, mapping, predict_out) ==
    IF predict_out = NoneObj THEN NoPrediction
    ELSE IF predict_out[1].i_scores = NoneObj THEN KeyError
    ELSE RankLabels(config, mapping,
                    LabelIds(Flatten(predict_out[1].i_scores[1])),
                    Confidences(config, Flatten(predict_out[1].i_scores[1])))

----------------------------------------------------------------------------
(* Model data (RasaModelData), as far as its keys and label ids go.        *)

TEXT == "text"
LABEL == "label"
ENTITIES == "entities"
IDS == "ids"
SENTENCE == "sentence"
SEQUENCE == "sequence"
SEQUENCE_LENGTH == "sequence_lengths"
DIAGNOSTIC_DATA == "diagnostic_data"

EmptyModelData ==
    [ keys |-> {}, order |-> << >>, label_ids |-> << >>, label_sentence |-> << >>,
      units |-> {}, num_examples |-> 0 ]

\* RasaModelData.sort: the keys, and under each key the sub-keys, in sorted
\* order
RECURSIVE sort(_)
sort(keys) ==
    IF keys = {} THEN << >>
    ELSE LET first == CHOOSE k \in keys : \A other \in keys :
                          \/ StrRank(k[1]) < StrRank(other[1])
                          \/ k[1] = other[1] /\ StrLeq(k[2], other[2])
         IN  << first >> \o sort(keys \ {first})

\* RasaModelData.is_empty
is_empty(model_data) == model_data.keys = {}

\* RasaModelData.number_of_units: 0 for a key without features
number_of_units(model_data, key, sub_key) ==
    IF HasKey(model_data.units, << key, sub_key >>)
    THEN Get(model_data.units, << key, sub_key >>)
    ELSE 0

\* RasaModelData.get_signature and first_data_example, as far as the model
\* reads them: the keys, and the units of the features under the keys
get_signature(model_data) ==
    [ keys |-> model_data.keys, units |-> model_data.units ]

\* bool(self._entity_tag_specs)
HasTagSpecs(specs) == specs # NoneObj /\ specs[1] # << >>

\* np.eye(n)
Eye(n) == [ i \in 1..n |-> [ j \in 1..n |-> IF i = j THEN 1 ELSE 0 ] ]

\* DIETClassifier._find_example_for_label: the first example of the label,
\* None if there is none
_find_example_for_label(label, examples) ==
    LET HasLabel(ex) == get(ex, INTENT) = label
    IN  IF SelectSeq(examples, HasLabel) = << >> THEN NoneObj
        ELSE Some(SelectSeq(examples, HasLabel)[1])

\* lines 600-610 of _create_label_data: the pairs of the label id dict in
\* the order of the ids
LabelsByIdx(label_id_dict) ==
    [ i \in 1..Cardinality(label_id_dict) |->
        CHOOSE p \in label_id_dict :
            Cardinality({ q \in label_id_dict : q[2] < p[2] }) = i - 1 ]

\* Message.features_present(attribute) for the label attribute
features_present(example) == example.features.intent # NoneObj

\* DIETClassifier._check_labels_features_exist: all(...) reads the label
\* examples in order and stops at the first one without features, so that
\* only an example it reads can raise (features_present of None);
\* all([]) is True
RECURSIVE _check_labels_features_exist(_)
_check_labels_features_exist(labels_example) ==
    IF labels_example = << >> THEN [ raised |-> FALSE, all |-> TRUE ]
    ELSE IF Head(labels_example) = NoneObj THEN [ raised |-> TRUE, all |-> FALSE ]
    ELSE IF ~features_present(Head(labels_example)[1])
    THEN [ raised |-> FALSE, all |-> FALSE ]
    ELSE _check_labels_features_exist(Tail(labels_example))

\* DIETClassifier._extract_labels_precomputed_features: the dense sentence
\* features of the label examples, one row per label
_extract_labels_precomputed_features(labels_example) ==
    [ i \in DOMAIN labels_example |-> labels_example[i][1].features.intent[1] ]

\* DIETClassifier._compute_default_label_features: one-hot rows
_compute_default_label_features(labels_example) == Eye(Len(labels_example))

LabelDataRaised == [ raised |-> TRUE, label_data |-> NoneObj ]

\* lines 611-645 of _create_label_data, given the example of each label
LabelDataOf(labels, labels_example) ==
    IF _check_labels_features_exist(labels_example).raised
    THEN LabelDataRaised
    ELSE IF labels_example = << >> THEN LabelDataRaised
    ELSE [ raised |-> FALSE,
           label_data |->
               Some([ ids |-> [ i \in DOMAIN labels |-> labels[i][2] ],
                      sentence |->
                          IF _check_labels_features_exist(labels_example).all
                          THEN _extract_labels_precomputed_features(labels_example)
                          ELSE _compute_default_label_features(labels_example) ]) ]

\* DIETClassifier._create_label_data: one row per label, in label id order:
\* the features of the first example of each label if every such example
\* has features, else the one-hot default features.  It raises for a label
\* without an example that _check_labels_features_exist reads, and without
\* any label ("No label features are present").
_create_label_data(td, label_id_dict) ==
    LabelDataOf(LabelsByIdx(label_id_dict),
                [ i \in 1..Cardinality(label_id_dict) |->
                    _find_example_for_label(LabelsByIdx(label_id_dict)[i][1],
                                            IntentExamples(td)) ])

\* DIETClassifier._add_label_features (lines 726-738): the label ids
LabelIdsOf(config, examples, label_id_dict, label_attribute, training) ==
    LET RECURSIVE Ids(_)
        Ids(exs) ==
            IF exs = << >> THEN << >>
            ELSE IF Truthy(get(Head(exs), label_attribute))
            THEN << Get(label_id_dict, get(Head(exs), label_attribute)) >>
                 \o Ids(Tail(exs))
            ELSE Ids(Tail(exs))
    IN  IF training /\ config.INTENT_CLASSIFICATION THEN Ids(examples) ELSE << >>

UseDefaultLabelFeaturesInRowOrder(all_label_features, label_ids) ==
    [ k \in DOMAIN label_ids |->
        all_label_features.sentence[((k - 1) % Len(all_label_features.sentence)) + 1] ]

\* DIETClassifier._use_default_label_features: for each label id the row of
\* the label data's sentence features at that index (rows count from 0)
_use_default_label_features(all_label_features, label_ids) ==
    [ k \in DOMAIN label_ids |-> all_label_features.sentence[label_ids[k] + 1] ]

\* lines 679-684 of _create_model_data: in training with a label attribute,
\* the examples whose data has the key of the label attribute
ExamplesWithLabelAttribute(examples, label_attribute, training) ==
    LET HasLabelAttribute(ex) == label_attribute \in DOMAIN ex
    IN  IF training /\ label_attribute # None
        THEN SelectSeq(examples, HasLabelAttribute)
        ELSE examples

\* featurize_training_examples and convert_to_data_format for the label
\* attribute: the features the examples bring for it, one row for each
\* example that has them
OwnLabelFeatures(kept) ==
    LET Featurized(ex) == features_present(ex)
    IN  [ i \in DOMAIN SelectSeq(kept, Featurized) |->
            SelectSeq(kept, Featurized)[i].features.intent[1] ]

\* lines 740-754 of _add_label_features: the sentence features under LABEL
\* are those the examples bring for the label attribute, if they bring any
\* (the attribute is considered in training with intent classification),
\* else the default features of their label ids
LabelSentenceOf(config, kept, label_ids, label_attribute, _label_data, training) ==
    IF ~Truthy(label_attribute) THEN << >>
    ELSE IF training /\ config.INTENT_CLASSIFICATION /\ OwnLabelFeatures(kept) # << >>
    THEN OwnLabelFeatures(kept)
    ELSE _use_default_label_features(_label_data[1], label_ids)

LabelKeysAlways(config, label_ids, label_sentence, training) ==
    IF config.INTENT_CLASSIFICATION
    THEN { << LABEL, IDS >>, << LABEL, SENTENCE >> }
    ELSE {}

\* lines 726-754: the keys under LABEL.  The label ids are added in training
\* with intent classification, the sentence features as LabelSentenceOf
\* gives them; RasaModelData.add_features leaves out an array without rows.
LabelKeys(config, label_ids, label_sentence, training) ==
    (IF training /\ config.INTENT_CLASSIFICATION /\ label_ids # << >>
     THEN { << LABEL, IDS >> } ELSE {})
    \cup (IF label_sentence # << >> THEN { << LABEL, SENTENCE >> } ELSE {})

\* the keys of the model data: text features, label ids and features, and
\* in training with entity recognition the tag ids of every tag spec
ModelDataKeys(config, specs, label_ids, label_sentence, training) ==
    { << TEXT, SENTENCE >>, << TEXT, SEQUENCE >>, << TEXT, SEQUENCE_LENGTH >> }
    \cup LabelKeys(config, label_ids, label_sentence, training)
    \cup (IF training /\ config.ENTITY_RECOGNITION /\ HasTagSpecs(specs)
          THEN { << ENTITIES, specs[1][i].tag_name >> : i \in DOMAIN specs[1] }
          ELSE {})

\* the units of the sentence and sequence features of the model data
UnitsOf(keys, kept, label_sentence) ==
    { << << TEXT, SENTENCE >>, kept[1].features.text >>,
      << << TEXT, SEQUENCE >>, kept[1].features.text >> }
    \cup (IF << LABEL, SENTENCE >> \in keys /\ label_sentence # << >>
          THEN { << << LABEL, SENTENCE >>, Len(label_sentence[1]) >> }
          ELSE {})

\* lines 686-716: the model data of the examples kept
ModelDataOf(keys, kept, label_ids, label_sentence) ==
    [ keys |-> keys,
      order |-> sort(keys),
      label_ids |-> label_ids,
      label_sentence |-> label_sentence,
      units |-> UnitsOf(keys, kept, label_sentence),
      num_examples |-> Len(kept) ]

\* RasaModelData.number_of_examples, which add_data and add_features call
\* (lines 706, 734 and 745): whether it raises ("Number of examples differs
\* for keys"), as it does when the arrays of the data differ in their rows
NumberOfExamplesDiffers(model_data) ==
    \/ /\ model_data.label_ids # << >>
       /\ Len(model_data.label_ids) # model_data.num_examples
    \/ /\ model_data.label_sentence # << >>
       /\ Len(model_data.label_sentence) # model_data.num_examples

\* lines 686-757, given the examples kept and their label ids: the model
\* data, unless adding the features to it raises
ModelDataOfKept(config, specs, kept, label_ids, label_attribute, _label_data, training) ==
    LET label_sentence == LabelSentenceOf(config, kept, label_ids, label_attribute,
                                          _label_data, training)
        model_data == ModelDataOf(ModelDataKeys(config, specs, label_ids,
                                                label_sentence, training),
                                  kept, label_ids, label_sentence)
    IN  IF NumberOfExamplesDiffers(model_data)
        THEN [ raised |-> TRUE, model_data |-> EmptyModelData ]
        ELSE [ raised |-> FALSE, model_data |-> model_data ]

\* DIETClassifier._create_model_data (with _add_label_features): the model
\* data it returns, or that it raises
_create_model_data(config, specs, examples, label_id_dict, label_attribute, _label_data, training) ==
    IF ExamplesWithLabelAttribute(examples, label_attribute, training) = << >>
    THEN [ raised |-> FALSE, model_data |-> EmptyModelData ]
    ELSE ModelDataOfKept(config, specs,
             ExamplesWithLabelAttribute(examples, label_attribute, training),
             LabelIdsOf(config,
                        ExamplesWithLabelAttribute(examples, label_attribute, training),
                        label_id_dict, label_attribute, training),
             label_attribute, _label_data, training)

\* DIETClassifier._check_input_dimension_consistency: whether it raises
_check_input_dimension_consistency(config, model_data) ==
    /\ config.SHARE_HIDDEN_LAYERS
    /\ \/ /\ 0 < number_of_units(model_data, TEXT, SENTENCE)
          /\ number_of_units(model_data, TEXT, SENTENCE)
               # number_of_units(model_data, LABEL, SENTENCE)
          /\ number_of_units(model_data, LABEL, SENTENCE) > 0
       \/ /\ 0 < number_of_units(model_data, TEXT, SEQUENCE)
          /\ number_of_units(model_data, TEXT, SEQUENCE)
               # number_of_units(model_data, LABEL, SEQUENCE)
          /\ number_of_units(model_data, LABEL, SEQUENCE) > 0

\* DIETClassifier._check_enough_labels
_check_enough_labels(model_data) == Cardinality(Range(model_data.label_ids)) >= 2

----------------------------------------------------------------------------
(* The DIET model.                                                         *)

OrderedTagSpecsAsSupplied(specs) ==
    IF specs = NoneObj THEN << >> ELSE specs[1]

\* DIET._ordered_tag_specs
_ordered_tag_specs(specs) ==
    LET crf_order == << ENTITY_ATTRIBUTE_TYPE, ENTITY_ATTRIBUTE_ROLE,
                        ENTITY_ATTRIBUTE_GROUP >>
        RECURSIVE Ordered(_)
        Ordered(i) ==
            IF i > Len(crf_order) THEN << >>
            ELSE LET Named(spec) == spec.tag_name = crf_order[i]
                 IN  SelectSeq(specs[1], Named) \o Ordered(i + 1)
    IN  IF specs = NoneObj THEN << >> ELSE Ordered(1)

EntityRecognitionKept(config, data_signature) == config.ENTITY_RECOGNITION

\* DIET._check_data (lines 1278-1287): whether entity recognition stays on
EntityRecognitionAfterCheck(config, data_signature) ==
    config.ENTITY_RECOGNITION
    /\ << ENTITIES, ENTITY_ATTRIBUTE_TYPE >> \in data_signature.keys

\* lines 1255-1270 of _check_data: the text and the label features under
\* sub_key are both there and their signatures differ (the features are
\* dense here, so that the signatures differ exactly if the units do)
DifferentSignatures(data_signature, sub_key) ==
    /\ << TEXT, sub_key >> \in data_signature.keys
    /\ << LABEL, sub_key >> \in data_signature.keys
    /\ number_of_units(data_signature, TEXT, sub_key)
         # number_of_units(data_signature, LABEL, sub_key)

CheckDataRaisesWithoutText(config, data_signature) ==
    TEXT \notin { k[1] : k \in data_signature.keys }

\* DIET._check_data (lines 1240-1276): raises without text features, with
\* intent classification enabled without label features, and with intent
\* classification and shared hidden layers if the signatures of the text
\* and the label features differ
CheckDataRaises(config, data_signature) ==
    \/ TEXT \notin { k[1] : k \in data_signature.keys }
    \/ /\ config.INTENT_CLASSIFICATION
       /\ \/ LABEL \notin { k[1] : k \in data_signature.keys }
          \/ /\ config.SHARE_HIDDEN_LAYERS
             /\ \/ DifferentSignatures(data_signature, SENTENCE)
                \/ DifferentSignatures(data_signature, SEQUENCE)

\* DIET.__init__: the new model.  Its config is the dict it was given, so
\* the reset of ENTITY_RECOGNITION shows in the caller's dict too.
DIET(data_signature, labels, specs, config, net) ==
    [ config |-> [ config EXCEPT !.ENTITY_RECOGNITION =
                       EntityRecognitionAfterCheck(config, data_signature) ],
      data_signature |-> data_signature,
      predict_data_signature |-> { k \in data_signature.keys : k[1] = TEXT },
      label_ids |-> labels.ids,
      entity_tag_specs |-> _ordered_tag_specs(specs),
      all_labels_embed |-> NoneObj,
      prepared |-> FALSE,
      prepared_for_prediction |-> FALSE,
      net |-> net ]

\* the loop over the tag specs of _batch_loss_entities (lines 1553-1582) and
\* _batch_predict_entities (lines 1657-1684): the heads evaluated, in order,
\* each with the entity_tags it is given as additional input.  A spec
\* without tags is skipped; after the head of the entity type, entity_tags
\* is the one-hot encoding of its tags (tag_ids in the loss, pred_ids in
\* prediction).
EntityHeads(specs, tags) ==
    LET RECURSIVE Loop(_, _)
        Loop(i, entity_tags) ==
            IF i > Len(specs) THEN << >>
            ELSE IF specs[i].num_tags = 0 THEN Loop(i + 1, entity_tags)
            ELSE << [ tag_name |-> specs[i].tag_name, entity_tags |-> entity_tags ] >>
                 \o Loop(i + 1,
                         IF specs[i].tag_name = ENTITY_ATTRIBUTE_TYPE
                         THEN Some([ one_hot |-> tags, depth |-> specs[i].num_tags ])
                         ELSE entity_tags)
    IN  Loop(1, NoneObj)

\* DIET._batch_loss_entities: one loss per tag spec that has tags
_batch_loss_entities(m) ==
    LET heads == EntityHeads(m.entity_tag_specs, "tag_ids")
    IN  [ i \in DOMAIN heads |-> heads[i].tag_name ]

\* DIET.batch_loss: the names of the losses it sums
batch_loss(m) ==
    (IF m.config.MASKED_LM THEN << "mask" >> ELSE << >>)
    \o (IF m.config.INTENT_CLASSIFICATION THEN << "intent" >> ELSE << >>)
    \o (IF m.config.ENTITY_RECOGNITION THEN _batch_loss_entities(m) ELSE << >>)

\* DIET._batch_predict_entities: the keys it adds to the predictions
_batch_predict_entities(m) ==
    LET heads == EntityHeads(m.entity_tag_specs, "pred_ids")
    IN  UNION { { "e_" \o heads[i].tag_name \o "_ids",
                  "e_" \o heads[i].tag_name \o "_scores" } : i \in DOMAIN heads }

BatchPredictIntentsUnchecked(m) ==
    [ raised |-> FALSE, i_scores |-> Some(m.net.i_scores) ]

\* DIET._batch_predict_intents: raises unless the all-labels embedding is set
_batch_predict_intents(m) ==
    IF m.all_labels_embed = NoneObj
    THEN [ raised |-> TRUE, i_scores |-> NoneObj ]
    ELSE [ raised |-> FALSE, i_scores |-> Some(m.net.i_scores) ]

\* DIET.batch_predict: the intents are predicted first (lines 1639-1642),
\* so that nothing is predicted for the entities when that raises
batch_predict(m) ==
    LET intents == IF m.config.INTENT_CLASSIFICATION
                   THEN _batch_predict_intents(m)
                   ELSE [ raised |-> FALSE, i_scores |-> NoneObj ]
        entity_keys == IF m.config.ENTITY_RECOGNITION /\ ~intents.raised
                       THEN _batch_predict_entities(m) ELSE {}
    IN  [ raised |-> intents.raised,
          keys |-> {DIAGNOSTIC_DATA}
                   \cup (IF intents.i_scores # NoneObj THEN {"i_scores"} ELSE {})
                   \cup entity_keys,
          i_scores |-> intents.i_scores,
          entities |-> m.net.entities ]

\* DIET.prepare_for_predict
prepare_for_predict(m) ==
    [ m EXCEPT !.prepared = TRUE,
               !.all_labels_embed = IF m.config.INTENT_CLASSIFICATION
                                    THEN Some(m.label_ids)
                                    ELSE m.all_labels_embed ]

----------------------------------------------------------------------------
(* The DIETClassifier component.                                           *)

\* the component's fields as one record
Component ==
    [ component_config |-> component_config,
      index_label_id_mapping |-> index_label_id_mapping,
      entity_tag_specs |-> entity_tag_specs,
      model |-> model,
      label_data |-> label_data,
      data_example |-> data_example,
      finetune_mode |-> finetune_mode ]

SetComponent(c) ==
    /\ component_config' = c.component_config
    /\ index_label_id_mapping' = c.index_label_id_mapping
    /\ entity_tag_specs' = c.entity_tag_specs
    /\ model' = c.model
    /\ label_data' = c.label_data
    /\ data_example' = c.data_example
    /\ finetune_mode' = c.finetune_mode

IsComponent(c) ==
    /\ component_config = c.component_config
    /\ index_label_id_mapping = c.index_label_id_mapping
    /\ entity_tag_specs = c.entity_tag_specs
    /\ model = c.model
    /\ label_data = c.label_data
    /\ data_example = c.data_example
    /\ finetune_mode = c.finetune_mode

\* DIETClassifier._check_masked_lm: whether it raises
_check_masked_lm(config) ==
    config.MASKED_LM /\ config.NUM_TRANSFORMER_LAYERS = 0

\* DIETClassifier._check_share_hidden_layers_sizes: whether it raises.
\* HIDDEN_LAYERS_SIZES is a dict from attribute to a list of sizes.
_check_share_hidden_layers_sizes(config) ==
    /\ config.SHARE_HIDDEN_LAYERS
    /\ LET first_hidden_layer_sizes == config.HIDDEN_LAYERS_SIZES[1][2]
       IN  \E i \in DOMAIN config.HIDDEN_LAYERS_SIZES :
               config.HIDDEN_LAYERS_SIZES[i][2] # first_hidden_layer_sizes

CheckConfigParametersShareOnly(config) ==
    _check_share_hidden_layers_sizes(config)

\* DIETClassifier._check_config_parameters: whether one of its checks raises
_check_config_parameters(config) ==
    _check_masked_lm(config) \/ _check_share_hidden_layers_sizes(config)

\* DIETClassifier.__init__(component_config): a component without a model
NewComponent(config) ==
    [ component_config |-> config,
      index_label_id_mapping |-> NoneObj,
      entity_tag_specs |-> NoneObj,
      model |-> NoneObj,
      label_data |-> NoneObj,
      data_example |-> NoneObj,
      finetune_mode |-> FALSE ]

\* lines 788-796 of preprocess_train_data, given what _create_model_data
\* did: the model data is returned unless _create_model_data or
\* _check_input_dimension_consistency raises; the fields of the component
\* are set by then
PreprocessChecked(c, created) ==
    IF created.raised
    THEN [ c |-> c, model_data |-> EmptyModelData, raised |-> TRUE ]
    ELSE IF _check_input_dimension_consistency(c.component_config, created.model_data)
    THEN [ c |-> c, model_data |-> EmptyModelData, raised |-> TRUE ]
    ELSE [ c |-> c, model_data |-> created.model_data, raised |-> FALSE ]

\* lines 778-792 of preprocess_train_data, given the label data
PreprocessCreated(c, td, label_id_index_mapping, created, specs) ==
    IF created.raised
    THEN [ c |-> c, model_data |-> EmptyModelData, raised |-> TRUE ]
    ELSE PreprocessChecked(
             [ c EXCEPT !.label_data = created.label_data,
                        !.entity_tag_specs = specs ],
             _create_model_data(c.component_config, specs, td.nlu_examples,
                                label_id_index_mapping,
                                IF c.component_config.INTENT_CLASSIFICATION
                                THEN INTENT ELSE None,
                                created.label_data, TRUE))

\* lines 776-796 of preprocess_train_data, given a label index with labels
PreprocessLabelled(c, td, label_id_index_mapping) ==
    PreprocessCreated(
        [ c EXCEPT !.index_label_id_mapping =
                       Some(_invert_mapping(label_id_index_mapping)) ],
        td, label_id_index_mapping,
        _create_label_data(td, label_id_index_mapping),
        Some(_create_entity_tag_specs(c.component_config, td)))

PreprocessSettingSpecsFirst(c, td) ==
    IF _label_id_index_mapping(td) = {}
    THEN [ c |-> [ c EXCEPT !.entity_tag_specs =
                       Some(_create_entity_tag_specs(c.component_config, td)) ],
           model_data |-> EmptyModelData, raised |-> FALSE ]
    ELSE PreprocessLabelled(c, td, _label_id_index_mapping(td))

\* DIETClassifier.preprocess_train_data: the component after the call, the
\* model data it returns and whether it raises.  Without a label it returns
\* empty model data before it sets a field of the component.
preprocess_train_data(c, td) ==
    IF _label_id_index_mapping(td) = {}
    THEN [ c |-> c, model_data |-> EmptyModelData, raised |-> FALSE ]
    ELSE PreprocessLabelled(c, td, _label_id_index_mapping(td))

\* the weights of a model that was built and not fitted
UntrainedNet(m) ==
    [ i_scores |-> [ i \in DOMAIN m.label_ids |-> 0 ], entities |-> << >>,
      fitted |-> FALSE ]

OwnEntities(td) ==
    { [ entity |-> t, extractor |-> "DIETClassifier" ] :
        t \in (td.entities \ {NO_ENTITY_TAG, None}) }

SeqsUpTo(S, n) == UNION { [ 1..k -> S ] : k \in 0..n }

\* what fit can leave in a model: a score per label for the message text
\* and the entities decoded from it (none unless entity types are predicted)
Nets(m, td) ==
    { [ i_scores |-> sc, entities |-> en, fitted |-> TRUE ] :
        sc \in IF m.config.INTENT_CLASSIFICATION
               THEN [ DOMAIN m.label_ids -> 0..MaxTrainScore ]
               ELSE { [ i \in DOMAIN m.label_ids |-> 0 ] },
        en \in IF m.config.ENTITY_RECOGNITION
                  /\ "e_entity_ids" \in _batch_predict_entities(m)
               THEN SeqsUpTo(OwnEntities(td), MaxPredicted)
               ELSE { << >> } }

\* DIETClassifier._instantiate_model_class, before fit
NewModel(c, model_data) ==
    LET m == DIET(get_signature(model_data), c.label_data[1], c.entity_tag_specs,
                  c.component_config, << >>)
    IN  [ m EXCEPT !.net = UntrainedNet(m) ]

\* the model train fits: the component's own model in finetune mode
ModelToFit(c, model_data) ==
    IF c.finetune_mode THEN c.model[1] ELSE NewModel(c, model_data)

\* DIETClassifier.train up to the call of fit (lines 809-836): the component
\* then, and whether the call returned early ("skipped"), goes on to fit
\* ("fit"), or raises ("raised": preprocess_train_data raises, the new
\* model rejects the data signature, or fit has no loss to sum)
train_until_fit(c, td) ==
    LET pre == preprocess_train_data(c, td)
        model_data == pre.model_data
        m == ModelToFit(pre.c, model_data)
        started == [ pre.c EXCEPT
                       !.data_example = Some(get_signature(model_data)),
                       !.model = Some(m),
                       !.component_config =
                           IF c.finetune_mode THEN @ ELSE m.config ]
    IN  IF pre.raised
        THEN [ c |-> pre.c, outcome |-> "raised" ]
        ELSE IF is_empty(model_data)
        THEN [ c |-> pre.c, outcome |-> "skipped" ]
        ELSE IF c.component_config.INTENT_CLASSIFICATION
                /\ ~_check_enough_labels(model_data)
        THEN [ c |-> pre.c, outcome |-> "skipped" ]
        ELSE IF ~c.finetune_mode
                /\ CheckDataRaises(pre.c.component_config, get_signature(model_data))
        THEN [ c |-> [ pre.c EXCEPT !.data_example =
                                        Some(get_signature(model_data)) ],
               outcome |-> "raised" ]
        ELSE IF batch_loss(m) = << >>
        THEN [ c |-> started, outcome |-> "raised" ]
        ELSE [ c |-> started, outcome |-> "fit" ]

\* model.fit (lines 853-861): training leaves net in the model
after_fit(r, net) ==
    IF r.outcome = "fit"
    THEN [ c |-> [ r.c EXCEPT !.model = Some([ r.c.model[1] EXCEPT !.net = net ]) ],
           outcome |-> "trained" ]
    ELSE r

\* what fit can leave in the model of a train call
FitNets(r, td) ==
    IF r.outcome = "fit" THEN Nets(r.c.model[1], td) ELSE { << >> }

\* DIETClassifier.train, given what fit leaves in the model: the component
\* after the call and how the call ended
train(c, td, net) == after_fit(train_until_fit(c, td), net)

\* RasaModel.rasa_predict, what it does to the model: a model that was not
\* prepared for prediction is prepared before it predicts
PreparedForPrediction(m) ==
    IF m.prepared_for_prediction THEN m
    ELSE [ prepare_for_predict(m) EXCEPT !.prepared_for_prediction = TRUE ]

\* RasaModel.rasa_predict: runs batch_predict on the batch of one message
rasa_predict(m) == batch_predict(PreparedForPrediction(m))

PredictWithoutModelCheck(c) ==
    IF c.model = NoneObj THEN [ raised |-> TRUE, out |-> NoneObj ]
    ELSE LET p == rasa_predict(c.model[1])
         IN  [ raised |-> p.raised, out |-> Some(p) ]

\* DIETClassifier._predict: None without a model, else the model's
\* predictions for the message
_predict(c) ==
    IF c.model = NoneObj THEN [ raised |-> FALSE, out |-> NoneObj ]
    ELSE LET p == rasa_predict(c.model[1])
         IN  [ raised |-> p.raised, out |-> Some(p) ]

\* message.get(ENTITIES, [])
EntityList(msg) == IF msg.entities = NoneObj THEN << >> ELSE msg.entities[1]

\* train_utils.entity_label_to_tags reads the predictions of every tag spec
\* of the component: KeyError if the model predicted none for one of them
MissingPredictions(specs, predict_out) ==
    \/ specs = NoneObj
    \/ \E i \in DOMAIN specs[1] :
         ("e_" \o specs[1][i].tag_name \o "_ids") \notin predict_out[1].keys

\* convert_predictions_into_entities and add_extractor_name: the entities
\* decoded from the predicted tags of the entity type
DecodedEntities(predict_out) ==
    IF "e_entity_ids" \in predict_out[1].keys THEN predict_out[1].entities ELSE << >>

PredictEntitiesReplacing(c, predict_out, msg) ==
    IF predict_out = NoneObj THEN [ raised |-> FALSE, entities |-> << >> ]
    ELSE IF MissingPredictions(c.entity_tag_specs, predict_out)
    THEN [ raised |-> TRUE, entities |-> << >> ]
    ELSE [ raised |-> FALSE, entities |-> DecodedEntities(predict_out) ]

\* DIETClassifier._predict_entities: the entity list to store, or KeyError
_predict_entities(c, predict_out, msg) ==
    IF predict_out = NoneObj THEN [ raised |-> FALSE, entities |-> << >> ]
    ELSE IF MissingPredictions(c.entity_tag_specs, predict_out)
    THEN [ raised |-> TRUE, entities |-> << >> ]
    ELSE [ raised |-> FALSE,
           entities |-> EntityList(msg) \o DecodedEntities(predict_out) ]

Raised(msg) == [ message |-> msg, outcome |-> "raised" ]
Returned(msg) == [ message |-> msg, outcome |-> "ok" ]

\* lines 966-967: message.set(INTENT, label), message.set("intent_ranking", ...)
SetIntent(msg, lab) ==
    IF lab.raised THEN Raised(msg)
    ELSE Returned([ msg EXCEPT !.intent = Some(lab.label),
                               !.intent_ranking = Some(lab.label_ranking) ])

\* lines 963-967 of process
ProcessIntent(c, msg, out) ==
    IF c.component_config.INTENT_CLASSIFICATION
    THEN SetIntent(msg, _predict_label(c.component_config,
                                       c.index_label_id_mapping, out))
    ELSE Returned(msg)

\* line 972: message.set(ENTITIES, entities)
SetEntities(msg, ent) ==
    IF ent.raised THEN Raised(msg)
    ELSE Returned([ msg EXCEPT !.entities = Some(ent.entities) ])

ProcessEntitiesAlways(c, r, out) ==
    IF r.outcome = "ok"
    THEN SetEntities(r.message, _predict_entities(c, out, r.message))
    ELSE r

\* lines 969-972 of process, reached unless the lines before raised
ProcessEntities(c, r, out) ==
    IF r.outcome = "ok" /\ c.component_config.ENTITY_RECOGNITION
    THEN SetEntities(r.message, _predict_entities(c, out, r.message))
    ELSE r

\* lines 974-975 of process
ProcessDiagnosticData(r, out) ==
    IF r.outcome = "ok" /\ out # NoneObj /\ DIAGNOSTIC_DATA \in out[1].keys
    THEN Returned([ r.message EXCEPT !.diagnostic_data = TRUE ])
    ELSE r

\* lines 963-975 of process, given what _predict returned
ProcessPrediction(c, msg, out) ==
    ProcessDiagnosticData(ProcessEntities(c, ProcessIntent(c, msg, out), out), out)

ProcessPredicted(c, msg, p) ==
    IF p.raised THEN Raised(msg) ELSE ProcessPrediction(c, msg, p.out)

\* DIETClassifier.process: the message after the call and how the call ended
process(c, msg) == ProcessPredicted(c, msg, _predict(c))

----------------------------------------------------------------------------
(* The masked-LM loss (DIET._mask_loss).  lm_mask_bool is a boolean tensor *)
(* of shape (batch, positions, 1): mask[b][t][1], counted from 1 here and  *)
(* from 0 in the indices of tf.scatter_nd.                                 *)

\* tf.shape
tf_shape(tensor) == << Len(tensor), Len(tensor[1]), Len(tensor[1][1]) >>

\* tf.reduce_any
reduce_any(tensor) ==
    \E b \in DOMAIN tensor : \E t \in DOMAIN tensor[b] :
        \E k \in DOMAIN tensor[b][t] : tensor[b][t][k]

\* tf.scatter_nd(indices, [True], shape) for a boolean tensor: True at the
\* indices, False elsewhere
scatter_nd(indices, shape) ==
    [ b \in 1..shape[1] |->
        [ t \in 1..shape[2] |->
            [ k \in 1..shape[3] |-> << b - 1, t - 1, k - 1 >> \in indices ] ] ]

\* tf.squeeze(tensor, -1)
squeeze(tensor) ==
    [ b \in DOMAIN tensor |-> [ t \in DOMAIN tensor[b] |-> tensor[b][t][1] ] ]

\* tf.boolean_mask: the positions picked by a mask of shape (batch, positions)
boolean_mask(mask) ==
    { << b, t >> : b \in DOMAIN mask, t \in DOMAIN mask[1] } \cap
    { p \in (DOMAIN mask) \X (DOMAIN mask[1]) : mask[p[1]][p[2]] }

MaskLossUnpatched(lm_mask_bool) ==
    [ raised |-> FALSE,
      lm_mask_bool |-> squeeze(lm_mask_bool),
      picked |-> boolean_mask(squeeze(lm_mask_bool)) ]

\* DIET._mask_loss (lines 1416-1429): the mask it uses and the positions it
\* picks for the loss
_mask_loss(lm_mask_bool) ==
    [ raised |-> FALSE,
      lm_mask_bool |->
          squeeze(IF reduce_any(lm_mask_bool) THEN lm_mask_bool
                  ELSE scatter_nd({ << 0, 0, 0 >> }, tf_shape(lm_mask_bool))),
      picked |->
          boolean_mask(squeeze(IF reduce_any(lm_mask_bool) THEN lm_mask_bool
                               ELSE scatter_nd({ << 0, 0, 0 >> },
                                               tf_shape(lm_mask_bool)))) ]

----------------------------------------------------------------------------
(* Feature extraction (DIETClassifier._extract_features).  The features of *)
(* a message for one attribute are four optional arrays; an array is       *)
(* modelled by its first dimension, [rows |-> n].                          *)

INTENT_RESPONSE_KEY == "intent_response_key"
SPARSE == "sparse"
DENSE == "dense"

\* lines 483-502: the first dimensions of a sparse and a dense array of one
\* granularity differ
DimensionsDiffer(sparse_features, dense_features) ==
    /\ dense_features # NoneObj
    /\ sparse_features # NoneObj
    /\ dense_features[1].rows # sparse_features[1].rows

DropsSequenceFeaturesOfAnyAttribute(config, attribute) ==
    /\ config.NUM_TRANSFORMER_LAYERS = 0
    /\ ~config.ENTITY_RECOGNITION

\* lines 508-514: the sequence features are not used
DropsSequenceFeatures(config, attribute) ==
    /\ config.NUM_TRANSFORMER_LAYERS = 0
    /\ ~config.ENTITY_RECOGNITION
    /\ attribute \notin { INTENT, INTENT_RESPONSE_KEY }

\* lines 516-527: the dict of the features that are not None
FeaturesOut(sparse_sentence, sparse_sequence, dense_sentence, dense_sequence) ==
    { << SPARSE \o "_" \o SENTENCE, sparse_sentence[i] >> : i \in DOMAIN sparse_sentence }
    \cup { << SPARSE \o "_" \o SEQUENCE, sparse_sequence[i] >> : i \in DOMAIN sparse_sequence }
    \cup { << DENSE \o "_" \o SENTENCE, dense_sentence[i] >> : i \in DOMAIN dense_sentence }
    \cup { << DENSE \o "_" \o SEQUENCE, dense_sequence[i] >> : i \in DOMAIN dense_sequence }

ExtractFeaturesCheckingKept(config, features, attribute) ==
    LET drop == DropsSequenceFeatures(config, attribute)
        sparse_sequence == IF drop THEN NoneObj ELSE features.sparse_sequence
        dense_sequence == IF drop THEN NoneObj ELSE features.dense_sequence
    IN  IF \/ DimensionsDiffer(sparse_sequence, dense_sequence)
           \/ DimensionsDiffer(features.sparse_sentence, features.dense_sentence)
        THEN [ raised |-> TRUE, out |-> NoneObj ]
        ELSE [ raised |-> FALSE,
               out |-> Some(FeaturesOut(features.sparse_sentence, sparse_sequence,
                                        features.dense_sentence, dense_sequence)) ]

\* DIETClassifier._extract_features(message, attribute), features being what
\* message.get_sparse_features and message.get_dense_features return
_extract_features(config, features, attribute) ==
    IF \/ DimensionsDiffer(features.sparse_sequence, features.dense_sequence)
       \/ DimensionsDiffer(features.sparse_sentence, features.dense_sentence)
    THEN [ raised |-> TRUE, out |-> NoneObj ]
    ELSE IF DropsSequenceFeatures(config, attribute)
    THEN [ raised |-> FALSE,
           out |-> Some(FeaturesOut(features.sparse_sentence, NoneObj,
                                    features.dense_sentence, NoneObj)) ]
    ELSE [ raised |-> FALSE,
           out |-> Some(FeaturesOut(features.sparse_sentence, features.sparse_sequence,
                                    features.dense_sentence, features.dense_sequence)) ]

----------------------------------------------------------------------------
(* persist and load.  The model directory holds one file per artefact      *)
(* (None while the file does not exist); the metadata is what persist      *)
(* returned together with the component's configuration.                   *)

\* str(i) and int(s) for the ids written to JSON, whose keys are strings
IntStrings == << "0", "1", "2", "3", "4", "5", "6", "7", "8", "9", "10", "11", "12" >>
str(i) == IntStrings[i + 1]
int(s) == (CHOOSE i \in DOMAIN IntStrings : IntStrings[i] = s) - 1

\* a dict with integer keys as JSON writes it: the keys become strings
json_keys(d) == { << str(p[1]), p[2] >> : p \in d }

\* jsonpickle of index_label_id_mapping (None is written as null)
json_pickle(mapping) ==
    IF mapping = NoneObj THEN NoneObj ELSE Some(json_keys(mapping[1]))

\* lines 1007-1014: tag_spec._asdict() of every tag spec, as JSON
dump_entity_tag_specs(specs) ==
    IF HasTagSpecs(specs)
    THEN [ i \in DOMAIN specs[1] |->
             [ tag_name |-> specs[1][i].tag_name,
               tags_to_ids |-> specs[1][i].tags_to_ids,
               ids_to_tags |-> json_keys(specs[1][i].ids_to_tags),
               num_tags |-> specs[1][i].num_tags ] ]
    ELSE << >>

EmptyModelDir ==
    [ tf_model |-> NoneObj, data_example |-> NoneObj, label_data |-> NoneObj,
      index_label_id_mapping |-> NoneObj, entity_tag_specs |-> NoneObj,
      checkpoints |-> NoneObj ]

\* nothing has been persisted: no metadata, an empty directory; the
\* component has no temporary checkpoint directory
NothingPersisted ==
    [ meta |-> NoneObj, model_dir |-> EmptyModelDir, persisted_by |-> NoneObj,
      tmp_checkpoint_dir |-> NoneObj ]

\* DIETClassifier.__init__ (lines 345-347): with checkpointing the new
\* component gets a temporary directory of its own
TmpCheckpointDir(config) ==
    IF config.CHECKPOINT_MODEL THEN Some("tmp_checkpoint_dir") ELSE NoneObj

FileName == "component_1_DIETClassifier"

\* the metadata of a persisted component: its configuration and what
\* persist returned
Metadata(config, file) == [ config |-> config, file |-> file ]

\* lines 994-998: the model's weights and the data example are written
SaveModel(c, model_dir) ==
    [ model_dir EXCEPT !.tf_model = Some(c.model[1].net),
                       !.data_example = Some(c.data_example) ]

\* lines 999-1014: the label data, the label index and the tag specs
SaveLabels(c, model_dir) ==
    [ model_dir EXCEPT
        !.label_data = Some(c.label_data[1]),
        !.index_label_id_mapping = Some(json_pickle(c.index_label_id_mapping)),
        !.entity_tag_specs = Some(dump_entity_tag_specs(c.entity_tag_specs)) ]

\* lines 994-1016 of persist: dict(self._label_data.data) raises if the
\* component has no label data, after the first two files were written
PersistFiles(c, stored) ==
    IF c.label_data = NoneObj
    THEN [ outcome |-> "raised",
           stored |-> [ stored EXCEPT !.model_dir = SaveModel(c, @) ] ]
    ELSE [ outcome |-> "ok",
           stored |-> [ stored EXCEPT
                          !.meta = Some(Metadata(c.component_config, FileName)),
                          !.model_dir = SaveLabels(c, SaveModel(c, @)),
                          !.persisted_by = Some(c) ] ]

\* lines 992-993: with checkpointing, shutil.move takes the component's
\* temporary checkpoint directory into the model directory
MoveCheckpoints(c, stored) ==
    IF c.component_config.CHECKPOINT_MODEL
    THEN [ stored EXCEPT !.model_dir.checkpoints = stored.tmp_checkpoint_dir,
                         !.tmp_checkpoint_dir = NoneObj ]
    ELSE stored

\* DIETClassifier.persist: the directory and the metadata after the call.
\* shutil.move raises if the temporary directory was moved away before.
persist(c, stored) ==
    IF c.model = NoneObj
    THEN [ outcome |-> "ok",
           stored |-> [ stored EXCEPT
                          !.meta = Some(Metadata(c.component_config, None)),
                          !.persisted_by = Some(c) ] ]
    ELSE IF c.component_config.CHECKPOINT_MODEL /\ stored.tmp_checkpoint_dir = NoneObj
    THEN [ outcome |-> "raised", stored |-> stored ]
    ELSE PersistFiles(c, MoveCheckpoints(c, stored))

\* DIETClassifier._load_from_files: the keys read from JSON are converted
\* back to integers (the ids of tags_to_ids are JSON numbers, which int()
\* leaves as they are)
_load_from_files(model_dir) ==
    LET int_keys(d) == { << int(p[1]), p[2] >> : p \in d }
        specs == model_dir.entity_tag_specs[1]
    IN  [ index_label_id_mapping |-> int_keys(model_dir.index_label_id_mapping[1][1]),
          entity_tag_specs |->
              [ i \in DOMAIN specs |->
                  [ tag_name |-> specs[i].tag_name,
                    tags_to_ids |-> specs[i].tags_to_ids,
                    ids_to_tags |-> int_keys(specs[i].ids_to_tags),
                    num_tags |-> specs[i].num_tags ] ],
          label_data |-> model_dir.label_data[1],
          data_example |-> model_dir.data_example[1] ]

\* DIETClassifier._load_model: a new DIET built from the loaded artefacts and
\* a copy of the metadata, with the saved weights
_load_model(loaded, config, model_dir) ==
    [ DIET(loaded.data_example[1], loaded.label_data,
           Some(loaded.entity_tag_specs), config, << >>)
        EXCEPT !.net = model_dir.tf_model[1] ]

\* lines 1059-1065: the component load returns
LoadedComponent(loaded, config, model_dir, should_finetune) ==
    [ NewComponent(config) EXCEPT
        !.index_label_id_mapping = Some(loaded.index_label_id_mapping),
        !.entity_tag_specs = Some(loaded.entity_tag_specs),
        !.model = Some(_load_model(loaded, config, model_dir)),
        !.finetune_mode = should_finetune ]

LoadRaisingWithoutFile(meta, model_dir, should_finetune) ==
    IF ~Truthy(meta.file)
    THEN [ outcome |-> "raised", c |-> NoneObj ]
    ELSE IF model_dir.data_example[1] = NoneObj
    THEN [ outcome |-> "raised", c |-> NoneObj ]
    ELSE [ outcome |-> "ok",
           c |-> Some(LoadedComponent(_load_from_files(model_dir), meta.config,
                                      model_dir, should_finetune)) ]

\* DIETClassifier.load: the component it returns, unless it raises (the
\* pickled data example is None when a component that was itself loaded
\* wrote it)
load(meta, model_dir, should_finetune) ==
    IF ~Truthy(meta.file)
    THEN [ outcome |-> "ok", c |-> Some(NewComponent(meta.config)) ]
    ELSE IF model_dir.data_example[1] = NoneObj
    THEN [ outcome |-> "raised", c |-> NoneObj ]
    ELSE [ outcome |-> "ok",
           c |-> Some(LoadedComponent(_load_from_files(model_dir), meta.config,
                                      model_dir, should_finetune)) ]

----------------------------------------------------------------------------
(* Inputs.                                                                 *)

IntentNames == << "greet", "bye", "thanks", "affirm", "deny", "mood" >>
TypeTagNames == << "city", "LOC", "PER" >>
RoleTagNames == << "to", "from", "via" >>
GroupTagNames == << "2", "1", "3" >>

FirstN(names, n) == { names[i] : i \in 1..n }

TagNamesOf(tag_name) ==
    IF tag_name = ENTITY_ATTRIBUTE_ROLE THEN RoleTagNames
    ELSE IF tag_name = ENTITY_ATTRIBUTE_GROUP THEN GroupTagNames
    ELSE TypeTagNames

\* tag sets of an attribute: every subset of its first NumTags names, the
\* no-entity tag and None; or just nothing and one name
RichTags(tag_name) ==
    SUBSET (FirstN(TagNamesOf(tag_name), NumTags) \cup {NO_ENTITY_TAG, None})
PoorTags(tag_name) == { {}, { TagNamesOf(tag_name)[1] } }

TrainingData(examples, entities, roles, groups) ==
    [ nlu_examples |-> examples, entities |-> entities,
      entity_roles |-> roles, entity_groups |-> groups ]

NoTrainingData == TrainingData(<< >>, {}, {}, {})

\* the features of a message whose text was featurized with the given
\* number of units and whose intent was not featurized
TextFeatures(units) == [ text |-> units, intent |-> NoneObj ]

\* a message as Message.build(text, intent) and a featurizer of the text
\* with one unit leave it: the data has the intent key for a truthy intent
Example(intent) ==
    IF Truthy(intent)
    THEN [ intent |-> intent, features |-> TextFeatures(1) ]
    ELSE [ features |-> TextFeatures(1) ]

Examples(intents, n) == SeqsUpTo({ Example(i) : i \in intents }, n)

\* the examples with text features of the given number of units
WithTextUnits(examples, units) ==
    [ i \in DOMAIN examples |->
        [ examples[i] EXCEPT !.features = [ @ EXCEPT !.text = units ] ] ]

\* corpora for preprocess_train_data: many example lists with few tags, and
\* a two-intent corpus with many tag sets, one attribute at a time
TwoIntents == << Example("greet"), Example("bye") >>

PreprocessCorpora ==
    { TrainingData(ex, e, {}, {}) :
        ex \in Examples(FirstN(IntentNames, NumIntents) \cup {None}, MaxExamples),
        e \in PoorTags(ENTITY_ATTRIBUTE_TYPE) }
    \cup
    { TrainingData(TwoIntents, e, r, g) :
        e \in RichTags(ENTITY_ATTRIBUTE_TYPE),
        r \in PoorTags(ENTITY_ATTRIBUTE_ROLE),
        g \in PoorTags(ENTITY_ATTRIBUTE_GROUP) }
    \cup
    { TrainingData(TwoIntents, e, r, g) :
        e \in PoorTags(ENTITY_ATTRIBUTE_TYPE),
        r \in RichTags(ENTITY_ATTRIBUTE_ROLE),
        g \in PoorTags(ENTITY_ATTRIBUTE_GROUP) }
    \cup
    { TrainingData(TwoIntents, e, r, g) :
        e \in PoorTags(ENTITY_ATTRIBUTE_TYPE),
        r \in PoorTags(ENTITY_ATTRIBUTE_ROLE),
        g \in RichTags(ENTITY_ATTRIBUTE_GROUP) }

\* corpora for train in the lifecycle: messages as Message.build leaves
\* them, with text features of one unit; one intent and two intents with
\* text features of MaxUnits units; and an example whose data holds the
\* intent key with an empty value beside an example with an intent
TrainCorpora ==
    { TrainingData(ex, e, {}, {}) :
        ex \in Examples(FirstN(IntentNames, NumIntents) \cup {None}, MaxTrainExamples),
        e \in PoorTags(ENTITY_ATTRIBUTE_TYPE) }
    \cup { TrainingData(WithTextUnits(ex, MaxUnits), {}, {}, {}) :
             ex \in { << Example("greet") >>, TwoIntents } }
    \cup { TrainingData(<< [ intent |-> "", features |-> TextFeatures(1) ],
                           Example("greet") >>, {}, {}, {}) }

\* corpora for train where persistence is checked: no example, an example
\* without intent, one intent, two intents; with and without an entity type
PersistCorpora ==
    { TrainingData(ex, e, {}, {}) :
        ex \in { << >>, << Example(None) >>, << Example("greet") >>, TwoIntents },
        e \in PoorTags(ENTITY_ATTRIBUTE_TYPE) }

\* a corpus with one example for each of n intents
RankCorpus(n) ==
    TrainingData([ i \in 1..n |-> Example(IntentNames[i]) ], {}, {}, {})

\* the options of component_config the component and the model read here
Config(ic, er, bilou, mlm, k, conf) ==
    [ INTENT_CLASSIFICATION |-> ic, ENTITY_RECOGNITION |-> er,
      BILOU_FLAG |-> bilou, MASKED_LM |-> mlm,
      RANKING_LENGTH |-> k, MODEL_CONFIDENCE |-> conf,
      CHECKPOINT_MODEL |-> FALSE, SHARE_HIDDEN_LAYERS |-> FALSE ]

RankingLengths == (0..MaxRankingLength) \cup {LABEL_RANKING_LENGTH}

\* configurations of the lifecycle: each task on and off, with and without
\* shared hidden layers
Configs ==
    { [ Config(ic, er, FALSE, FALSE, LABEL_RANKING_LENGTH, SOFTMAX)
          EXCEPT !.SHARE_HIDDEN_LAYERS = share ] :
        ic \in BOOLEAN, er \in BOOLEAN, share \in BOOLEAN }

PreprocessConfigs ==
    { Config(ic, er, bilou, FALSE, LABEL_RANKING_LENGTH, SOFTMAX) :
        ic \in BOOLEAN, er \in BOOLEAN, bilou \in BOOLEAN }

\* the same with and without shared hidden layers
SharingConfigs ==
    { [ config EXCEPT !.SHARE_HIDDEN_LAYERS = share ] :
        config \in PreprocessConfigs, share \in BOOLEAN }

RankConfigs ==
    { Config(TRUE, FALSE, FALSE, FALSE, k, conf) :
        k \in RankingLengths, conf \in {SOFTMAX, LINEAR_NORM} }

UpstreamEntities ==
    { [ entity |-> "PER", extractor |-> "SpacyEntityExtractor" ] }

NewMessageWith(entities) ==
    [ intent |-> NoneObj, intent_ranking |-> NoneObj, entities |-> entities,
      diagnostic_data |-> FALSE ]

\* messages without entities, and with the entities of upstream extractors
Messages ==
    { NewMessageWith(e) :
        e \in {NoneObj} \cup
               { Some(s) : s \in SeqsUpTo(UpstreamEntities, MaxUpstream) \ { << >> } } }

\* the hash seeds of the Python processes
HashSeeds == { 1, 2 }

Call(op, outcome, result) == [ op |-> op, outcome |-> outcome, result |-> result ]

----------------------------------------------------------------------------
(* The component's lifecycle in a pipeline: it is trained and handed       *)
(* messages to process, in any order.                                      *)

Init ==
    /\ \E config \in Configs : IsComponent(NewComponent(config))
    /\ training_data = NoTrainingData
    /\ message = NoneObj
    /\ process_calls = 0
    /\ train_calls = 0
    /\ hash_seed \in HashSeeds
    /\ persisted = NothingPersisted
    /\ last_call = Call("init", "ok", NoneObj)

\* train(training_data)
TrainOn(td) ==
    \E before \in { train_until_fit(Component, td) } :
        \E net \in FitNets(before, td) :
            \E r \in { after_fit(before, net) } :
                /\ SetComponent(r.c)
                /\ training_data' = td
                /\ last_call' = Call("train", r.outcome, NoneObj)
                /\ train_calls' = train_calls + 1
                /\ UNCHANGED << hash_seed, message, process_calls, persisted >>

Train ==
    /\ train_calls < MaxTrainCalls
    /\ \E td \in TrainCorpora : TrainOn(td)

\* prepare_for_predict() on the component's model
PrepareForPredict ==
    /\ model # NoneObj
    /\ model' = Some(prepare_for_predict(model[1]))
    /\ training_data' = NoTrainingData
    /\ last_call' = Call("prepare_for_predict", "ok", NoneObj)
    /\ UNCHANGED << hash_seed, component_config, index_label_id_mapping, entity_tag_specs,
                    label_data, data_example, finetune_mode, message,
                    process_calls, train_calls, persisted >>

\* process(message); the call records the message it was given and whether
\* the call before it was a process of the same message
ProcessResult(r, repeated) ==
    /\ message' = r.message
    /\ last_call' = Call("process", r.outcome,
                         Some([ message |-> message, repeated |-> repeated ]))

Process ==
    /\ message # NoneObj
    /\ process_calls < MaxProcessCalls
    /\ ProcessResult(process(Component, message),
                     last_call.op = "process" /\ process_calls >= 1)
    /\ model' = IF model = NoneObj THEN model
                ELSE Some(PreparedForPrediction(model[1]))
    /\ process_calls' = process_calls + 1
    /\ training_data' = NoTrainingData
    /\ UNCHANGED << hash_seed, component_config, index_label_id_mapping,
                    entity_tag_specs, label_data, data_example,
                    finetune_mode, train_calls, persisted >>

\* the pipeline hands the component the next message
NewMessage ==
    /\ message' \in Messages
    /\ process_calls' = 0
    /\ training_data' = NoTrainingData
    /\ last_call' = Call("message", "ok", NoneObj)
    /\ UNCHANGED << hash_seed, component_config, index_label_id_mapping, entity_tag_specs,
                    model, label_data, data_example, finetune_mode, train_calls,
                    persisted >>

Next == Train \/ PrepareForPredict \/ Process \/ NewMessage

Spec == Init /\ [][Next]_vars

----------------------------------------------------------------------------
(* One call on a new component: preprocess_train_data or train on a given  *)
(* corpus.                                                                 *)

InitTrain ==
    /\ \E config \in SharingConfigs : IsComponent(NewComponent(config))
    /\ training_data \in PreprocessCorpora
    /\ message = NewMessageWith(NoneObj)
    /\ process_calls = 0
    /\ train_calls = 0
    /\ hash_seed \in HashSeeds
    /\ persisted = NothingPersisted
    /\ last_call = Call("init", "ok", NoneObj)

\* preprocess_train_data(training_data)
Preprocess ==
    /\ last_call.op = "init"
    /\ \E r \in { preprocess_train_data(Component, training_data) } :
           /\ SetComponent(r.c)
           /\ last_call' = Call("preprocess_train_data",
                                IF r.raised THEN "raised" ELSE "ok",
                                Some(r.model_data))
    /\ UNCHANGED << hash_seed, training_data, message, process_calls, train_calls,
                    persisted >>

\* train(training_data) on the given corpus
TrainGiven ==
    /\ last_call.op = "init"
    /\ TrainOn(training_data)

NextTrain == Preprocess \/ TrainGiven

SpecTrain == InitTrain /\ [][NextTrain]_vars

----------------------------------------------------------------------------
(* Persistence: the component is trained, persisted, loaded again and      *)
(* handed one message, in any order.                                       *)

PersistConfigs ==
    { [ config EXCEPT !.CHECKPOINT_MODEL = checkpoint ] :
        config \in Configs, checkpoint \in BOOLEAN }

InitPersist ==
    /\ \E config \in PersistConfigs :
         /\ IsComponent(NewComponent(config))
         /\ persisted = [ NothingPersisted EXCEPT
                            !.tmp_checkpoint_dir = TmpCheckpointDir(config) ]
    /\ training_data = NoTrainingData
    /\ message = NewMessageWith(NoneObj)
    /\ process_calls = 0
    /\ train_calls = 0
    /\ hash_seed \in HashSeeds
    /\ last_call = Call("init", "ok", NoneObj)

\* train(training_data)
TrainPersistable ==
    /\ train_calls < MaxTrainCalls
    /\ \E td \in PersistCorpora : TrainOn(td)

\* persist(file_name, model_dir)
Persist ==
    LET r == persist(Component, persisted)
    IN  /\ persisted' = r.stored
        /\ training_data' = NoTrainingData
        /\ last_call' = Call("persist", r.outcome, NoneObj)
        /\ UNCHANGED << hash_seed, component_config, index_label_id_mapping,
                        entity_tag_specs, model, label_data, data_example,
                        finetune_mode, message, process_calls, train_calls >>

\* load(meta, model_dir): the pipeline goes on with the component it returns
LoadResult(r) ==
    /\ IF r.outcome = "ok" THEN SetComponent(r.c[1]) ELSE SetComponent(Component)
    /\ last_call' = Call("load", r.outcome, NoneObj)

\* the constructor gives the component load returns a temporary checkpoint
\* directory of its own; the process that loads may be another than the one
\* that persisted
Load ==
    /\ persisted.meta # NoneObj
    /\ LoadResult(load(persisted.meta[1], persisted.model_dir, FALSE))
    /\ persisted' = IF load(persisted.meta[1], persisted.model_dir, FALSE).outcome = "ok"
                    THEN [ persisted EXCEPT !.tmp_checkpoint_dir =
                               TmpCheckpointDir(persisted.meta[1].config) ]
                    ELSE persisted
    /\ training_data' = NoTrainingData
    /\ UNCHANGED train_calls
    /\ \/ UNCHANGED << hash_seed, message, process_calls >>
       \/ /\ hash_seed' \in HashSeeds
          /\ message' = NewMessageWith(NoneObj)
          /\ process_calls' = 0

\* process(message), once on a message where persistence is checked
ProcessOnce == process_calls = 0 /\ Process

NextPersist ==
    TrainPersistable \/ PrepareForPredict \/ ProcessOnce \/ Persist \/ Load

SpecPersist == InitPersist /\ [][NextPersist]_vars

----------------------------------------------------------------------------
(* The model class on its own: a DIET is built from a data signature,      *)
(* label data, entity tag specs in any order and a configuration (the      *)
(* component's fields hold them, as at line 831 of train), and is asked    *)
(* for its loss and its predictions.                                       *)

\* a tag spec of an entity attribute with k real tags (without tags if k = 0)
HeadSpec(tag_name, k) ==
    EntityTagSpec(tag_name,
                  IF k = 0 THEN {}
                  ELSE { << NO_ENTITY_TAG, 0 >> }
                       \cup { << TagNamesOf(tag_name)[i], i >> : i \in 1..k })

\* the sequences over S without repetition
Orders(S) ==
    { q \in UNION { [ 1..n -> S ] : n \in 0..Cardinality(S) } :
        \A i \in DOMAIN q, j \in DOMAIN q : i # j => q[i] # q[j] }

\* tag spec lists: at most one spec per entity attribute, in every order
HeadSpecLists ==
    { [ i \in DOMAIN q |-> HeadSpec(q[i][1], q[i][2]) ] :
        q \in { o \in Orders(Range(POSSIBLE_TAGS) \X (0..MaxHeadTags)) :
                  \A i \in DOMAIN o, j \in DOMAIN o : i # j => o[i][1] # o[j][1] } }

\* data signatures: text features or none, label features or none, and the
\* tag ids of every tag spec or of none
\* text features of 1..MaxUnits units; the label features are the rows of
\* the label data, of two units
DataSignatures(specs) ==
    { [ keys |->
          (IF text THEN { << TEXT, SENTENCE >>, << TEXT, SEQUENCE >>,
                          << TEXT, SEQUENCE_LENGTH >> } ELSE {})
          \cup (IF label THEN { << LABEL, IDS >>, << LABEL, SENTENCE >> } ELSE {})
          \cup (IF tags THEN { << ENTITIES, specs[i].tag_name >> : i \in DOMAIN specs }
                ELSE {}),
        units |->
          (IF text THEN { << << TEXT, SENTENCE >>, units >>,
                          << << TEXT, SEQUENCE >>, units >> } ELSE {})
          \cup (IF label THEN { << << LABEL, SENTENCE >>, 2 >> } ELSE {}) ] :
        text \in BOOLEAN, label \in BOOLEAN, tags \in BOOLEAN,
        units \in 1..MaxUnits }

DietConfigs ==
    { [ Config(ic, er, FALSE, mlm, LABEL_RANKING_LENGTH, SOFTMAX)
          EXCEPT !.SHARE_HIDDEN_LAYERS = share ] :
        ic \in BOOLEAN, er \in BOOLEAN, mlm \in BOOLEAN, share \in BOOLEAN }

InitDiet ==
    /\ \E config \in DietConfigs, specs \in HeadSpecLists :
         \E data_signature \in DataSignatures(specs) :
            IsComponent([ NewComponent(config) EXCEPT
                            !.index_label_id_mapping =
                                Some({ << 0, "bye" >>, << 1, "greet" >> }),
                            !.entity_tag_specs = Some(specs),
                            !.label_data = Some([ ids |-> << 0, 1 >>,
                                                  sentence |-> Eye(2) ]),
                            !.data_example = Some(data_signature) ])
    /\ training_data = NoTrainingData
    /\ message = NewMessageWith(NoneObj)
    /\ process_calls = 0
    /\ train_calls = 0
    /\ hash_seed \in HashSeeds
    /\ persisted = NothingPersisted
    /\ last_call = Call("init", "ok", NoneObj)

\* self.model = self._instantiate_model_class(model_data): DIET.__init__
\* raises if _check_data rejects the data signature
InstantiateModel ==
    /\ model = NoneObj
    /\ last_call.op = "init"
    /\ IF CheckDataRaises(component_config, data_example[1])
       THEN /\ last_call' = Call("DIET", "raised", Some(component_config))
            /\ UNCHANGED << component_config, model >>
       ELSE /\ last_call' = Call("DIET", "ok", Some(component_config))
            /\ model' = Some(NewModel(Component, data_example[1]))
            /\ component_config' = model'[1].config
    /\ UNCHANGED << hash_seed, index_label_id_mapping, entity_tag_specs, label_data,
                    data_example, finetune_mode, training_data, message,
                    process_calls, train_calls, persisted >>

\* model.batch_loss(batch): the losses it sums and the entity heads it
\* evaluated; tf.math.add_n raises on an empty list
BatchLoss ==
    /\ model # NoneObj
    /\ last_call' = Call("batch_loss",
                         IF batch_loss(model[1]) = << >> THEN "raised" ELSE "ok",
                         Some([ losses |-> batch_loss(model[1]),
                                heads |-> IF model[1].config.ENTITY_RECOGNITION
                                          THEN EntityHeads(model[1].entity_tag_specs,
                                                           "tag_ids")
                                          ELSE << >> ]))
    /\ UNCHANGED << hash_seed, component_config, index_label_id_mapping, entity_tag_specs,
                    model, label_data, data_example, finetune_mode,
                    training_data, message, process_calls, train_calls, persisted >>

\* model.batch_predict(batch): the keys it predicts and the entity heads it
\* evaluated (none when the prediction of the intents raised before)
BatchPredict ==
    /\ model # NoneObj
    /\ last_call' = Call("batch_predict",
                         IF batch_predict(model[1]).raised THEN "raised" ELSE "ok",
                         Some([ keys |-> batch_predict(model[1]).keys,
                                heads |-> IF model[1].config.ENTITY_RECOGNITION
                                             /\ ~batch_predict(model[1]).raised
                                          THEN EntityHeads(model[1].entity_tag_specs,
                                                           "pred_ids")
                                          ELSE << >> ]))
    /\ UNCHANGED << hash_seed, component_config, index_label_id_mapping, entity_tag_specs,
                    model, label_data, data_example, finetune_mode,
                    training_data, message, process_calls, train_calls, persisted >>

NextDiet == InstantiateModel \/ BatchLoss \/ PrepareForPredict \/ BatchPredict

SpecDiet == InitDiet /\ [][NextDiet]_vars

----------------------------------------------------------------------------
(* Feature extraction on its own: the features of one attribute of a       *)
(* message are extracted by a component with a given configuration.        *)

\* an optional feature array with 1..MaxRows rows
FeatureArrays == {NoneObj} \cup { Some([ rows |-> n ]) : n \in 1..MaxRows }

FeaturizedMessages ==
    { [ attribute |-> a,
        features |-> [ sparse_sequence |-> ss, sparse_sentence |-> st,
                       dense_sequence |-> ds, dense_sentence |-> dt ] ] :
        a \in { TEXT, INTENT, INTENT_RESPONSE_KEY },
        ss \in FeatureArrays, st \in FeatureArrays,
        ds \in FeatureArrays, dt \in FeatureArrays }

FeatureConfigs ==
    { Config(TRUE, er, FALSE, FALSE, LABEL_RANKING_LENGTH, SOFTMAX)
        @@ [ NUM_TRANSFORMER_LAYERS |-> n ] :
        er \in BOOLEAN, n \in 0..MaxTransformerLayers }

InitFeatures ==
    /\ \E config \in FeatureConfigs : IsComponent(NewComponent(config))
    /\ message \in FeaturizedMessages
    /\ training_data = NoTrainingData
    /\ process_calls = 0
    /\ train_calls = 0
    /\ hash_seed \in HashSeeds
    /\ persisted = NothingPersisted
    /\ last_call = Call("init", "ok", NoneObj)

\* self._extract_features(message, attribute)
ExtractFeatures ==
    LET r == _extract_features(component_config, message.features, message.attribute)
    IN  /\ last_call.op = "init"
        /\ last_call' = Call("_extract_features",
                             IF r.raised THEN "raised" ELSE "ok", r.out)
        /\ UNCHANGED << hash_seed, component_config, index_label_id_mapping, entity_tag_specs,
                        model, label_data, data_example, finetune_mode,
                        training_data, message, process_calls, train_calls,
                        persisted >>

NextFeatures == ExtractFeatures

SpecFeatures == InitFeatures /\ [][NextFeatures]_vars

----------------------------------------------------------------------------
(* Construction: the pipeline creates the component from a configuration.  *)
(* Before the call there is no component (its fields are None here).       *)

NoComponent ==
    [ component_config |-> NoneObj, index_label_id_mapping |-> NoneObj,
      entity_tag_specs |-> NoneObj, model |-> NoneObj, label_data |-> NoneObj,
      data_example |-> NoneObj, finetune_mode |-> FALSE ]

\* HIDDEN_LAYERS_SIZES: the sizes of the hidden layers of text and label
HiddenLayersSizes ==
    { << << TEXT, t >>, << LABEL, l >> >> :
        t \in SeqsUpTo(1..2, MaxHiddenLayers), l \in SeqsUpTo(1..2, MaxHiddenLayers) }

ConstructorConfigs ==
    { [ NUM_TRANSFORMER_LAYERS |-> n, SHARE_HIDDEN_LAYERS |-> share,
        HIDDEN_LAYERS_SIZES |-> sizes ]
        @@ Config(ic, er, FALSE, mlm, LABEL_RANKING_LENGTH, SOFTMAX) :
        ic \in BOOLEAN, er \in BOOLEAN, mlm \in BOOLEAN,
        n \in 0..MaxTransformerLayers, share \in BOOLEAN,
        sizes \in HiddenLayersSizes }

InitConstruct ==
    /\ IsComponent(NoComponent)
    /\ training_data = NoTrainingData
    /\ message = NoneObj
    /\ process_calls = 0
    /\ train_calls = 0
    /\ hash_seed \in HashSeeds
    /\ persisted = NothingPersisted
    /\ \E config \in ConstructorConfigs :
         last_call = Call("configure", "ok", Some(config))

\* DIETClassifier(component_config): __init__ raises if
\* _check_config_parameters does, and no component is created
Construct ==
    /\ last_call.op = "configure"
    /\ IF _check_config_parameters(last_call.result[1])
       THEN /\ SetComponent(Component)
            /\ last_call' = Call("__init__", "raised", last_call.result)
       ELSE /\ SetComponent(NewComponent(last_call.result[1]))
            /\ last_call' = Call("__init__", "ok", last_call.result)
    /\ UNCHANGED << hash_seed, training_data, message, process_calls, train_calls, persisted >>

NextConstruct == Construct

SpecConstruct == InitConstruct /\ [][NextConstruct]_vars

----------------------------------------------------------------------------
(* The masked-LM loss on its own: _mask_loss is given the mask of a batch  *)
(* of one or more examples with one or more positions each.                *)

LmMasks ==
    UNION { [ 1..batch -> [ 1..tokens -> [ 1..1 -> BOOLEAN ] ] ] :
              batch \in 1..MaxBatch, tokens \in 1..MaxTokens }

InitMask ==
    /\ IsComponent(NoComponent)
    /\ training_data = NoTrainingData
    /\ message = NoneObj
    /\ process_calls = 0
    /\ train_calls = 0
    /\ hash_seed \in HashSeeds
    /\ persisted = NothingPersisted
    /\ \E lm_mask_bool \in LmMasks :
         last_call = Call("batch", "ok", Some(lm_mask_bool))

\* self._mask_loss(outputs, inputs, seq_ids, lm_mask_bool, name); the call
\* records the mask it was given
MaskLoss ==
    LET r == _mask_loss(last_call.result[1])
    IN  /\ last_call.op = "batch"
        /\ last_call' = Call("_mask_loss", IF r.raised THEN "raised" ELSE "ok",
                             Some([ given |-> last_call.result[1],
                                    lm_mask_bool |-> r.lm_mask_bool,
                                    picked |-> r.picked ]))
        /\ UNCHANGED << hash_seed, component_config, index_label_id_mapping,
                        entity_tag_specs, model, label_data, data_example,
                        finetune_mode, training_data, message, process_calls,
                        train_calls, persisted >>

NextMask == MaskLoss

SpecMask == InitMask /\ [][NextMask]_vars

----------------------------------------------------------------------------
(* Model data of corpora in which an example can carry the label attribute *)
(* with an empty value, or features for it, and whose text features have   *)
(* one unit or more: preprocess_train_data on a new component, with and    *)
(* without shared hidden layers.                                           *)

\* the dense sentence features a featurizer of the intent leaves: a row of
\* two units, a function of the intent text
IntentFeatures(intent) == << StrRank(intent) + 2, 0 >>

\* messages as Message.build leaves them, messages whose data holds the
\* intent key with None or the empty string, and messages whose intent was
\* featurized
LabelExamples ==
    { Example(i) : i \in FirstN(IntentNames, NumIntents) \cup {None} }
    \cup { [ intent |-> v, features |-> TextFeatures(1) ] : v \in { None, "" } }
    \cup { [ intent |-> i,
             features |-> [ text |-> 1, intent |-> Some(IntentFeatures(i)) ] ] :
           i \in FirstN(IntentNames, NumIntents) }

LabelCorpora ==
    { TrainingData(WithTextUnits(ex, units), {}, {}, {}) :
        ex \in SeqsUpTo(LabelExamples, MaxExamples), units \in 1..MaxUnits }

InitModelData ==
    /\ \E config \in SharingConfigs : IsComponent(NewComponent(config))
    /\ training_data \in LabelCorpora
    /\ message = NewMessageWith(NoneObj)
    /\ process_calls = 0
    /\ train_calls = 0
    /\ hash_seed \in HashSeeds
    /\ persisted = NothingPersisted
    /\ last_call = Call("init", "ok", NoneObj)

NextModelData == Preprocess

SpecModelData == InitModelData /\ [][NextModelData]_vars

----------------------------------------------------------------------------
(* Ranking: a component trained on n intents, its model prepared and left  *)
(* with any scores, processes a message.                                   *)

RankNets(n) ==
    { [ i_scores |-> sc, entities |-> << >>, fitted |-> TRUE ] :
        sc \in [ 1..n -> 0..MaxScore ] }

RankedComponent(config, n, net) ==
    LET r == train(NewComponent(config), RankCorpus(n), net)
    IN  [ r.c EXCEPT !.model = Some(prepare_for_predict(r.c.model[1])) ]

InitRank ==
    /\ \E config \in RankConfigs, n \in 2..MaxLabels :
        \E net \in RankNets(n) : IsComponent(RankedComponent(config, n, net))
    /\ training_data = NoTrainingData
    /\ message = NewMessageWith(NoneObj)
    /\ process_calls = 0
    /\ train_calls = 1
    /\ hash_seed \in HashSeeds
    /\ persisted = NothingPersisted
    /\ last_call = Call("prepare_for_predict", "ok", NoneObj)

NextRank == Process

SpecRank == InitRank /\ [][NextRank]_vars

----------------------------------------------------------------------------
(* Properties of the label index and the entity tag specs (SpecTrain).     *)

\* the distinct non-null intent values of the examples of a corpus
DistinctIntents(td) ==
    { get(td.nlu_examples[i], INTENT) : i \in DOMAIN td.nlu_examples } \ {None, ""}

\* the distinct real tags of an entity attribute in a corpus
RealTags(tag_name, td) == DistinctTagsOf(tag_name, td) \ {NO_ENTITY_TAG, None}

\* the component's tag specs for an entity attribute
SpecsNamed(tag_name) ==
    { entity_tag_specs[1][i] : i \in { j \in DOMAIN entity_tag_specs[1] :
                                         entity_tag_specs[1][j].tag_name = tag_name } }

\* the last call was preprocess_train_data or train on training_data
Preprocessed == last_call.op \in {"preprocess_train_data", "train"}

\* C1: for every corpus with N >= 1 distinct non-null intent values, the
\* label index built from it gives exactly the ids 0..N-1 to exactly those
\* values, one id each, in the sorted order of the intent strings; it is
\* determined by the set of values, so the order and the number of the
\* examples do not matter.
C1_LabelIndexContiguousSorted ==
    (Preprocessed /\ DistinctIntents(training_data) # {})
    => /\ index_label_id_mapping # NoneObj
       /\ LET index == index_label_id_mapping[1]
              N == Cardinality(DistinctIntents(training_data))
          IN  /\ Keys(index) = 0..(N - 1)
              /\ Values(index) = DistinctIntents(training_data)
              /\ Cardinality(index) = N
              /\ \A p \in index, q \in index :
                     (p[1] < q[1]) <=> (StrRank(p[2]) < StrRank(q[2]))

\* the examples greet, greet, bye have been indexed as bye = 0, greet = 1
C1_Witness ==
    /\ last_call.op = "preprocess_train_data"
    /\ training_data.nlu_examples =
           << Example("greet"), Example("greet"), Example("bye") >>
    /\ index_label_id_mapping = Some({ << 0, "bye" >>, << 1, "greet" >> })

\* C9: with BILOU disabled, every entity attribute with k >= 1 real tags has
\* one tag spec whose tag-to-id map gives the no-entity tag the id 0 and the
\* real tags the ids 1..k in sorted order; the map has no other key, so a
\* null tag gets no id and the no-entity tag no id but 0.
C9_FlatTagIdsReserveZero ==
    (Preprocessed /\ ~component_config.BILOU_FLAG
        /\ DistinctIntents(training_data) # {})
    => \A a \in Range(POSSIBLE_TAGS) :
         RealTags(a, training_data) # {}
         => /\ entity_tag_specs # NoneObj
            /\ Cardinality(SpecsNamed(a)) = 1
            /\ \A spec \in SpecsNamed(a) :
                 LET T == spec.tags_to_ids
                     real == RealTags(a, training_data)
                 IN  /\ Keys(T) = real \cup {NO_ENTITY_TAG}
                     /\ Cardinality(T) = Cardinality(real) + 1
                     /\ << NO_ENTITY_TAG, 0 >> \in T
                     /\ { p[2] : p \in { q \in T : q[1] \in real } }
                            = 1..Cardinality(real)
                     /\ \A p \in T, q \in T :
                            (p[1] \in real /\ q[1] \in real)
                            => ((p[2] < q[2]) <=> (StrRank(p[1]) < StrRank(q[1])))

\* the entity types LOC and city, with the no-entity tag (which sorts between
\* them) and a null tag, have got LOC = 1, city = 2 and no-entity = 0
C9_Witness ==
    /\ Preprocessed
    /\ ~component_config.BILOU_FLAG
    /\ training_data.entities = { "city", "LOC", NO_ENTITY_TAG, None }
    /\ entity_tag_specs # NoneObj
    /\ \E spec \in SpecsNamed(ENTITY_ATTRIBUTE_TYPE) :
         spec.tags_to_ids = { << "LOC", 1 >>, << "city", 2 >>, << NO_ENTITY_TAG, 0 >> }

\* train built a model from training_data (the component was new): the
\* call went on to fit, and did not raise before
ModelBuilt == last_call.op = "train" /\ model # NoneObj

\* C10: an entity attribute without a real tag in the training data gets no
\* tag spec, and the model built from that data sums no loss for it and,
\* prepared for prediction, predicts no e_<attribute>_ids and no
\* e_<attribute>_scores.
C10_NoSpecLossOrKeyWithoutRealTags ==
    Preprocessed
    => \A a \in Range(POSSIBLE_TAGS) :
         RealTags(a, training_data) = {}
         => /\ entity_tag_specs # NoneObj => SpecsNamed(a) = {}
            /\ ModelBuilt
               => /\ a \notin Range(batch_loss(model[1]))
                  /\ ("e_" \o a \o "_ids") \notin batch_predict(prepare_for_predict(model[1])).keys
                  /\ ("e_" \o a \o "_scores") \notin batch_predict(prepare_for_predict(model[1])).keys

\* a model trained on data with an entity type but only no-entity and null
\* roles: it has the loss and the keys of the type and none of the role
C10_Witness ==
    /\ last_call.op = "train"
    /\ last_call.outcome = "trained"
    /\ training_data.entities = { "city" }
    /\ training_data.entity_roles = { NO_ENTITY_TAG, None }
    /\ model # NoneObj
    /\ ENTITY_ATTRIBUTE_TYPE \in Range(batch_loss(model[1]))
    /\ "e_entity_ids" \in batch_predict(prepare_for_predict(model[1])).keys
    /\ ENTITY_ATTRIBUTE_ROLE \notin Range(batch_loss(model[1]))
    /\ "e_role_ids" \notin batch_predict(prepare_for_predict(model[1])).keys

----------------------------------------------------------------------------
(* Properties of train and process (Spec).                                 *)

\* C2: a train call on a corpus without examples, or (with intent
\* classification enabled in the component at the call) with fewer than two
\* distinct intents, returns without raising and without training, and
\* leaves self.model exactly as it was.
C2_TrainSkipsWithoutData ==
    [][ ( /\ train_calls' = train_calls + 1
          /\ \/ training_data'.nlu_examples = << >>
             \/ /\ component_config.INTENT_CLASSIFICATION
                /\ Cardinality(DistinctIntents(training_data')) < 2 )
        => ( last_call' = Call("train", "skipped", NoneObj) /\ model' = model )
      ]_vars

\* the message the last process call was given
Before == last_call.result[1].message

\* C3: while prepare_for_predict has not been called on a model with intent
\* classification enabled, the all-labels embedding is unset, batch_predict
\* raises and gives no intent scores; a batch_predict call on the model
\* then raised and predicted no i_scores (SpecDiet, where batch_predict is
\* called on the model itself).
C3_BatchPredictRaisesUnprepared ==
    ( /\ model # NoneObj
      /\ model[1].config.INTENT_CLASSIFICATION
      /\ ~model[1].prepared )
    => /\ model[1].all_labels_embed = NoneObj
       /\ batch_predict(model[1]).raised
       /\ batch_predict(model[1]).i_scores = NoneObj
       /\ "i_scores" \notin batch_predict(model[1]).keys
       /\ last_call.op = "batch_predict"
          => /\ last_call.outcome = "raised"
             /\ "i_scores" \notin last_call.result[1].keys

\* batch_predict has been called on a model with intent classification
\* that was never prepared, and it raised
C3_Witness ==
    /\ last_call.op = "batch_predict"
    /\ last_call.outcome = "raised"
    /\ model # NoneObj
    /\ model[1].config.INTENT_CLASSIFICATION
    /\ ~model[1].prepared
    /\ model[1].all_labels_embed = NoneObj

\* C4: process on a component without a model does not raise and, with
\* intent classification enabled, sets the intent to name None, id None,
\* confidence 0.0 and the intent ranking to the empty list.
C4_ProcessWithoutModel ==
    (last_call.op = "process" /\ model = NoneObj)
    => /\ last_call.outcome = "ok"
       /\ component_config.INTENT_CLASSIFICATION
          => /\ message.intent = Some([ name |-> None, id |-> NoneObj,
                                        confidence |-> Rat(0, 1) ])
             /\ message.intent_ranking = Some(<< >>)

\* a component with intent classification and without a model has processed
\* a message
C4_Witness ==
    /\ last_call.op = "process"
    /\ last_call.outcome = "ok"
    /\ model = NoneObj
    /\ component_config.INTENT_CLASSIFICATION
    /\ Before.intent = NoneObj
    /\ message.intent = Some(NoLabel)
    /\ message.intent_ranking = Some(<< >>)

IsPrefix(s, t) == Len(s) <= Len(t) /\ SubSeq(t, 1, Len(s)) = s

\* C5: after every process call with entity recognition enabled, with or
\* without a model, the entity list the message had before the call is a
\* prefix of the list it has after the call.
C5_UpstreamEntitiesKept ==
    (last_call.op = "process" /\ component_config.ENTITY_RECOGNITION)
    => IsPrefix(EntityList(Before), EntityList(message))

\* the last call processed, again, the message of the process call before it
\* (nothing else was called in between)
Repeated == last_call.op = "process" /\ last_call.result[1].repeated

\* C8 as claimed: after the second of two process calls in a row on one
\* message, the intent, the intent ranking and the entity list are those
\* after the first call.
C8_SecondProcessIdentical ==
    Repeated
    => /\ message.intent = Before.intent
       /\ message.intent_ranking = Before.intent_ranking
       /\ EntityList(message) = EntityList(Before)

\* the entities the second call appends: those the model decodes, if the
\* component has a model and recognises entities and the call returned
AppendedAgain ==
    IF model # NoneObj /\ component_config.ENTITY_RECOGNITION
       /\ last_call.outcome = "ok"
    THEN model[1].net.entities
    ELSE << >>

\* C8, amended: after the second of two process calls in a row on one
\* message, the intent and the intent ranking are those after the first
\* call, and the entity list is the list after the first call followed by
\* the entities the model decodes, appended once more.
C8_SecondProcessAppendsAgain ==
    Repeated
    => /\ message.intent = Before.intent
       /\ message.intent_ranking = Before.intent_ranking
       /\ EntityList(message) = EntityList(Before) \o AppendedAgain

\* a message was processed twice in a row by a model that decodes an entity:
\* same intent and ranking, one more entity
C8_Witness ==
    /\ Repeated
    /\ last_call.outcome = "ok"
    /\ model # NoneObj
    /\ component_config.INTENT_CLASSIFICATION
    /\ message.intent = Before.intent
    /\ message.intent # Some(NoLabel)
    /\ model[1].net.entities # << >>
    /\ Len(EntityList(message)) = Len(EntityList(Before)) + Len(model[1].net.entities)

----------------------------------------------------------------------------
(* Properties of the intent ranking (SpecRank).                            *)

\* process returned with an intent ranking
RankingStored == last_call.op = "process" /\ last_call.outcome = "ok"
              /\ component_config.INTENT_CLASSIFICATION /\ model # NoneObj

\* the label id index_label_id_mapping has for an intent name
LabelIdOf(name) == (CHOOSE p \in index_label_id_mapping[1] : p[2] = name)[1]

\* the similarity score the model gave the label of an intent name
SimilarityOf(name) == model[1].net.i_scores[LabelIdOf(name) + 1]

Min(a, b) == IF a < b THEN a ELSE b

\* C6: with a ranking length K, 0 < K < 10, and N candidate intents, the
\* intent ranking process stores has exactly min(K, N) entries, and their
\* confidences do not increase along the ranking.
C6_RankingLengthAndOrder ==
    ( /\ RankingStored
      /\ 0 < component_config.RANKING_LENGTH
      /\ component_config.RANKING_LENGTH < 10 )
    => LET ranking == message.intent_ranking[1]
       IN  /\ Len(ranking) = Min(component_config.RANKING_LENGTH,
                                 Len(model[1].label_ids))
           /\ \A i \in 1..(Len(ranking) - 1) :
                  RatLeq(ranking[i + 1].confidence, ranking[i].confidence)

\* ranking length 2 and 5 candidates with different scores: 2 entries
C6_Witness ==
    /\ RankingStored
    /\ component_config.RANKING_LENGTH = 2
    /\ Len(model[1].label_ids) = 5
    /\ Len(message.intent_ranking[1]) = 2
    /\ RatLess(message.intent_ranking[1][2].confidence,
               message.intent_ranking[1][1].confidence)

\* C7 as claimed: of two labels of the ranking with equal similarity score
\* the one with the smaller label id comes first.
C7_TiesSmallerIdFirst ==
    RankingStored
    => LET ranking == message.intent_ranking[1]
       IN  \A i \in DOMAIN ranking, j \in DOMAIN ranking :
               (i < j /\ SimilarityOf(ranking[i].name) = SimilarityOf(ranking[j].name))
               => LabelIdOf(ranking[i].name) < LabelIdOf(ranking[j].name)

\* C7, amended: of two labels of the ranking with equal similarity score the
\* one with the larger label id comes first (the ranking is the reverse of
\* an ascending sort that keeps equal scores in id order).
C7_TiesLargerIdFirst ==
    RankingStored
    => LET ranking == message.intent_ranking[1]
       IN  \A i \in DOMAIN ranking, j \in DOMAIN ranking :
               (i < j /\ SimilarityOf(ranking[i].name) = SimilarityOf(ranking[j].name))
               => LabelIdOf(ranking[i].name) > LabelIdOf(ranking[j].name)

\* labels 0 and 1 have the same score, and both are in the ranking, label 1
\* before label 0
C7_Witness ==
    /\ RankingStored
    /\ model[1].net.i_scores[1] = model[1].net.i_scores[2]
    /\ \E i \in DOMAIN message.intent_ranking[1], j \in DOMAIN message.intent_ranking[1] :
         /\ i < j
         /\ LabelIdOf(message.intent_ranking[1][i].name) = 1
         /\ LabelIdOf(message.intent_ranking[1][j].name) = 0

----------------------------------------------------------------------------
(* Properties of persist and load (SpecPersist).                           *)

\* the last call loaded a component from the files of a trained component
LoadedFromFiles ==
    /\ last_call = Call("load", "ok", NoneObj)
    /\ persisted.meta # NoneObj
    /\ Truthy(persisted.meta[1].file)

\* the component whose persist call wrote the metadata
PersistedBy == persisted.persisted_by[1]

\* C11: a component loaded from what a trained component persisted has the
\* label index, the entity tag spec list and the label data of that
\* component (the integer keys come back as integers).
C11_PersistLoadRoundTrip ==
    LoadedFromFiles
    => /\ index_label_id_mapping = PersistedBy.index_label_id_mapping
       /\ entity_tag_specs = PersistedBy.entity_tag_specs
       /\ label_data = PersistedBy.label_data

\* C12: once the component holds a trained model, a process call, a
\* persist call and a train call that is skipped leave the label index, the
\* entity tag spec list and the label data as they were.
C12_ImmutableAfterTraining ==
    [][ ( /\ model # NoneObj
          /\ \/ last_call'.op \in {"process", "persist"}
             \/ last_call' = Call("train", "skipped", NoneObj) )
        => /\ index_label_id_mapping' = index_label_id_mapping
           /\ entity_tag_specs' = entity_tag_specs
           /\ label_data' = label_data
      ]_vars

----------------------------------------------------------------------------
(* Properties of the DIET model (SpecDiet).                                *)

\* the model was to be built from a data signature without label features
BuiltWithoutLabelFeatures ==
    /\ last_call.op = "DIET"
    /\ LABEL \notin { k[1] : k \in data_example[1].keys }

\* C13 as claimed: when the data carries no label features, building the
\* model does not raise; training is skipped and no model is left.
C13_NoLabelFeaturesSkipped ==
    BuiltWithoutLabelFeatures
    => (last_call.outcome # "raised" /\ model = NoneObj)

\* C13, amended: with intent classification enabled, building the model from
\* data without label features raises (InvalidConfigException), and the
\* component is left without a model.
C13_NoLabelFeaturesRaise ==
    (BuiltWithoutLabelFeatures /\ component_config.INTENT_CLASSIFICATION)
    => (last_call.outcome = "raised" /\ model = NoneObj)

\* text features but no label features, intent classification enabled: the
\* model was not built, the call raised
C13_Witness ==
    /\ BuiltWithoutLabelFeatures
    /\ component_config.INTENT_CLASSIFICATION
    /\ << TEXT, SENTENCE >> \in data_example[1].keys
    /\ last_call.outcome = "raised"
    /\ model = NoneObj

----------------------------------------------------------------------------
(* Properties of feature extraction (SpecFeatures).                        *)

Extracted == last_call.op = "_extract_features"

\* the feature stored under a key of the extracted dict, None if absent
Out(kind, granularity) ==
    LET found == { p \in last_call.result[1] : p[1] = kind \o "_" \o granularity }
    IN  IF found = {} THEN NoneObj ELSE Some((CHOOSE p \in found : TRUE)[2])

\* C14: whenever the sparse and the dense array of one granularity
\* (sequence, or sentence) are both present with different first
\* dimensions, feature extraction raises and returns no features, in every
\* configuration, also where the sequence features would be dropped.
C14_MismatchRaises ==
    ( /\ Extracted
      /\ \/ DimensionsDiffer(message.features.sparse_sequence,
                             message.features.dense_sequence)
         \/ DimensionsDiffer(message.features.sparse_sentence,
                             message.features.dense_sentence) )
    => (last_call.outcome = "raised" /\ last_call.result = NoneObj)

\* sequence features of 1 and 2 rows, in a configuration that would drop
\* the sequence features of the text: the extraction raised
C14_Witness ==
    /\ Extracted
    /\ DropsSequenceFeatures(component_config, message.attribute)
    /\ message.features.sparse_sequence = Some([ rows |-> 1 ])
    /\ message.features.dense_sequence = Some([ rows |-> 2 ])
    /\ ~DimensionsDiffer(message.features.sparse_sentence,
                         message.features.dense_sentence)
    /\ last_call.outcome = "raised"
    /\ last_call.result = NoneObj

\* C17: feature extraction that returns drops the sparse and the dense
\* sequence features exactly when the number of transformer layers is 0,
\* entity recognition is disabled and the attribute is neither the intent
\* nor the intent response key; otherwise it returns the sequence features
\* it was given, and it always returns the sentence features it was given.
C17_SequenceDroppedExactlyWhenUnused ==
    (Extracted /\ last_call.outcome = "ok")
    => /\ Out(SPARSE, SENTENCE) = message.features.sparse_sentence
       /\ Out(DENSE, SENTENCE) = message.features.dense_sentence
       /\ IF /\ component_config.NUM_TRANSFORMER_LAYERS = 0
             /\ ~component_config.ENTITY_RECOGNITION
             /\ message.attribute # INTENT
             /\ message.attribute # INTENT_RESPONSE_KEY
          THEN Out(SPARSE, SEQUENCE) = NoneObj /\ Out(DENSE, SEQUENCE) = NoneObj
          ELSE /\ Out(SPARSE, SEQUENCE) = message.features.sparse_sequence
               /\ Out(DENSE, SEQUENCE) = message.features.dense_sequence

\* no transformer layers, no entity recognition: the sequence features of
\* the text were dropped and its sentence features kept
C17_Witness ==
    /\ Extracted
    /\ last_call.outcome = "ok"
    /\ component_config.NUM_TRANSFORMER_LAYERS = 0
    /\ ~component_config.ENTITY_RECOGNITION
    /\ message.attribute = TEXT
    /\ message.features.sparse_sequence # NoneObj
    /\ message.features.dense_sequence # NoneObj
    /\ message.features.sparse_sentence # NoneObj
    /\ Out(SPARSE, SEQUENCE) = NoneObj
    /\ Out(DENSE, SEQUENCE) = NoneObj
    /\ Out(SPARSE, SENTENCE) = message.features.sparse_sentence

----------------------------------------------------------------------------
(* Properties of construction (SpecConstruct).                             *)

\* the configuration the constructor was called with
Requested == last_call.result[1]

\* C15: constructing the classifier with masked-LM enabled and no
\* transformer layers, or with shared hidden layers and different hidden
\* layer sizes for text and label, raises; no component exists afterwards,
\* so no setting was changed to make the configuration valid.
C15_InvalidConfigRaises ==
    ( /\ last_call.op = "__init__"
      /\ \/ Requested.MASKED_LM /\ Requested.NUM_TRANSFORMER_LAYERS = 0
         \/ /\ Requested.SHARE_HIDDEN_LAYERS
            /\ Requested.HIDDEN_LAYERS_SIZES[1][2] # Requested.HIDDEN_LAYERS_SIZES[2][2] )
    => /\ last_call.outcome = "raised"
       /\ IsComponent(NoComponent)

\* masked-LM without transformer layers (hidden layers not shared): raised,
\* no component
C15_Witness ==
    /\ last_call.op = "__init__"
    /\ Requested.MASKED_LM
    /\ Requested.NUM_TRANSFORMER_LAYERS = 0
    /\ ~Requested.SHARE_HIDDEN_LAYERS
    /\ last_call.outcome = "raised"
    /\ component_config = NoneObj

----------------------------------------------------------------------------
(* Properties of model data (SpecTrain).                                   *)

\* the model data preprocess_train_data returned for training
TrainModelData == last_call.result[1]

\* the model data _predict builds for a message: _create_model_data with
\* training = False and no label attribute
PredictModelData ==
    _create_model_data(component_config, entity_tag_specs,
                       << Example(None) >>, {}, None, label_data, FALSE).model_data

\* C16: the model data built for prediction has text keys only, and its
\* keys and sub-keys come in the order the text keys have in the model data
\* built for training.
C16_PredictKeysAreTextKeysInTrainOrder ==
    ( /\ last_call.op = "preprocess_train_data"
      /\ ~is_empty(TrainModelData) )
    => LET IsTextKey(k) == k[1] = TEXT
       IN  /\ \A k \in PredictModelData.keys : k[1] = TEXT
           /\ Range(PredictModelData.order) = PredictModelData.keys
           /\ PredictModelData.order = SelectSeq(TrainModelData.order, IsTextKey)

\* training data with labels and entity tags: entities, label and text keys
\* for training, the three text keys in the same order for prediction
C16_Witness ==
    /\ last_call.op = "preprocess_train_data"
    /\ component_config.INTENT_CLASSIFICATION
    /\ component_config.ENTITY_RECOGNITION
    /\ TrainModelData.order =
           << << ENTITIES, ENTITY_ATTRIBUTE_TYPE >>, << LABEL, IDS >>,
              << LABEL, SENTENCE >>, << TEXT, SENTENCE >>, << TEXT, SEQUENCE >>,
              << TEXT, SEQUENCE_LENGTH >> >>
    /\ PredictModelData.order =
           << << TEXT, SENTENCE >>, << TEXT, SEQUENCE >>, << TEXT, SEQUENCE_LENGTH >> >>

\* the entity heads the last batch_loss or batch_predict call evaluated
HeadsEvaluated == last_call.result[1].heads

\* the tags an entity head of the type is one-hot encoded from in the pass
PassTags == IF last_call.op = "batch_loss" THEN "tag_ids" ELSE "pred_ids"

\* the place of an entity attribute in the order type, role, group
CrfRank(tag_name) ==
    CHOOSE i \in 1..3 :
        << ENTITY_ATTRIBUTE_TYPE, ENTITY_ATTRIBUTE_ROLE, ENTITY_ATTRIBUTE_GROUP >>[i]
            = tag_name

\* C18: whatever order the entity tag specs were supplied in, a pass of
\* batch_loss or batch_predict evaluates the heads of the supplied specs
\* that have tags in the order type, role, group, and every head evaluated
\* after the head of the type receives the one-hot type tags (of the true
\* tag ids in the loss, of the predicted ids in prediction).  A prediction
\* that raised for the intents has not come to the entity heads.
C18_HeadsInOrderWithTypeTags ==
    (last_call.op \in { "batch_loss", "batch_predict" }
     /\ ~(last_call.op = "batch_predict" /\ last_call.outcome = "raised")
     /\ model[1].config.ENTITY_RECOGNITION)
        => /\ { HeadsEvaluated[i].tag_name : i \in DOMAIN HeadsEvaluated }
                = { spec.tag_name : spec \in { t \in Range(entity_tag_specs[1]) :
                                                 t.num_tags # 0 } }
           /\ \A i \in DOMAIN HeadsEvaluated, j \in DOMAIN HeadsEvaluated :
                 i < j =>
                   /\ CrfRank(HeadsEvaluated[i].tag_name)
                        < CrfRank(HeadsEvaluated[j].tag_name)
                   /\ HeadsEvaluated[i].tag_name = ENTITY_ATTRIBUTE_TYPE
                        => /\ HeadsEvaluated[j].entity_tags # NoneObj
                           /\ HeadsEvaluated[j].entity_tags[1].one_hot = PassTags
                           /\ \E t \in Range(entity_tag_specs[1]) :
                                  /\ t.tag_name = ENTITY_ATTRIBUTE_TYPE
                                  /\ HeadsEvaluated[j].entity_tags[1].depth = t.num_tags

\* a prediction pass over all three heads, whose specs were supplied with
\* the group first and the type last
C18_Witness ==
    /\ last_call = Call("batch_predict", "ok", last_call.result)
    /\ Len(HeadsEvaluated) = 3
    /\ HeadsEvaluated[3].entity_tags # NoneObj
    /\ entity_tag_specs[1][1].tag_name = ENTITY_ATTRIBUTE_GROUP
    /\ entity_tag_specs[1][3].tag_name = ENTITY_ATTRIBUTE_TYPE

----------------------------------------------------------------------------
(* Default label features (SpecTrain).                                     *)

\* the examples of the corpus that have the label attribute, in order
KeptExamples ==
    ExamplesWithLabelAttribute(training_data.nlu_examples, INTENT, TRUE)

\* the length-n vector with 1 at position i (positions count from 0)
UnitVector(n, i) == [ j \in 1..n |-> IF j = i + 1 THEN 1 ELSE 0 ]

\* the kept examples that have a label, in order: those that get a label id
LabelledExamples ==
    LET HasLabel(ex) == Truthy(get(ex, INTENT))
    IN  SelectSeq(KeptExamples, HasLabel)

\* no example of the corpus carries features for the label attribute
NoDirectLabelFeatures ==
    \A i \in DOMAIN training_data.nlu_examples :
        ~features_present(training_data.nlu_examples[i])

\* C19: when no example carries label features of its own,
\* preprocess_train_data with intent classification on gives each example
\* that has a label id, as its label feature, the row of the label data at
\* that label id, and with N labels that row is the length-N unit vector
\* with 1 at the label id.
C19_DefaultLabelFeaturesOneHot ==
    (last_call = Call("preprocess_train_data", "ok", last_call.result)
     /\ NoDirectLabelFeatures
     /\ component_config.INTENT_CLASSIFICATION
     /\ ~is_empty(TrainModelData))
        => /\ Len(TrainModelData.label_sentence) = Len(LabelledExamples)
           /\ \A k \in DOMAIN LabelledExamples :
                 \E p \in index_label_id_mapping[1] :
                    /\ p[2] = get(LabelledExamples[k], INTENT)
                    /\ TrainModelData.label_sentence[k]
                         = label_data[1].sentence[p[1] + 1]
                    /\ TrainModelData.label_sentence[k]
                         = UnitVector(Cardinality(index_label_id_mapping[1]), p[1])

\* two examples whose label ids come in descending order: the first gets
\* the unit vector of label 1, the second that of label 0
C19_Witness ==
    /\ last_call = Call("preprocess_train_data", "ok", last_call.result)
    /\ NoDirectLabelFeatures
    /\ component_config.INTENT_CLASSIFICATION
    /\ TrainModelData.label_ids = << 1, 0 >>
    /\ TrainModelData.label_sentence = << << 0, 1 >>, << 1, 0 >> >>

----------------------------------------------------------------------------
(* What process writes (Spec).                                             *)

\* C20: a process call that returns has set the intent and the intent
\* ranking of the message if and only if intent classification is enabled,
\* and its entity list if and only if entity recognition is enabled; the
\* fields of a disabled task are as they were before the call, and a call
\* that raises leaves the whole message as it was.
C20_ProcessWritesEnabledTasks ==
    last_call.op = "process"
    => /\ last_call.outcome = "ok"
          => /\ component_config.INTENT_CLASSIFICATION
                   => (message.intent # NoneObj /\ message.intent_ranking # NoneObj)
             /\ component_config.ENTITY_RECOGNITION => message.entities # NoneObj
       /\ ~component_config.INTENT_CLASSIFICATION
          => /\ message.intent = Before.intent
             /\ message.intent_ranking = Before.intent_ranking
       /\ ~component_config.ENTITY_RECOGNITION
          => message.entities = Before.entities
       /\ last_call.outcome = "raised" => message = Before

\* a trained component with entity recognition only has processed a message
\* without entities: the entity list is set, intent and ranking are not
C20_Witness ==
    /\ last_call.op = "process"
    /\ last_call.outcome = "ok"
    /\ model # NoneObj
    /\ ~component_config.INTENT_CLASSIFICATION
    /\ component_config.ENTITY_RECOGNITION
    /\ Before.entities = NoneObj
    /\ message.entities # NoneObj
    /\ message.intent = NoneObj
    /\ message.intent_ranking = NoneObj

----------------------------------------------------------------------------
(* The reset of entity recognition (SpecDiet).                             *)

\* the configuration the model was to be built with
ConfigGiven == last_call.result[1]

\* the model was to be built with entity recognition enabled from a data
\* signature without features of the entity type
BuiltWithoutEntityType ==
    /\ last_call.op = "DIET"
    /\ ConfigGiven.ENTITY_RECOGNITION
    /\ << ENTITIES, ENTITY_ATTRIBUTE_TYPE >> \notin data_example[1].keys

\* C21: a model built with entity recognition enabled from a data signature
\* without entity type features has ENTITY_RECOGNITION disabled and every
\* other option as given, in its own configuration and in the component's;
\* the missing entity features never make the construction raise: it is
\* built whenever the signature has text features and, with intent
\* classification enabled, label features, which have the units of the text
\* features if the hidden layers are shared.
C21_EntityRecognitionResetOnly ==
    BuiltWithoutEntityType
    => /\ last_call.outcome = "ok"
          => /\ model # NoneObj
             /\ model[1].config
                  = [ ConfigGiven EXCEPT !.ENTITY_RECOGNITION = FALSE ]
             /\ component_config = model[1].config
       /\ ( /\ << TEXT, SENTENCE >> \in data_example[1].keys
            /\ ConfigGiven.INTENT_CLASSIFICATION
                  => /\ << LABEL, SENTENCE >> \in data_example[1].keys
                     /\ ConfigGiven.SHARE_HIDDEN_LAYERS
                          => number_of_units(data_example[1], TEXT, SENTENCE)
                               = number_of_units(data_example[1], LABEL, SENTENCE) )
          => last_call.outcome = "ok"

\* built with intent classification, masked-LM, shared hidden layers and
\* entity recognition from a signature with role tags but no type tags:
\* entity recognition is off, the others are still on
C21_Witness ==
    /\ BuiltWithoutEntityType
    /\ last_call.outcome = "ok"
    /\ ConfigGiven.SHARE_HIDDEN_LAYERS
    /\ model[1].config.SHARE_HIDDEN_LAYERS
    /\ << ENTITIES, ENTITY_ATTRIBUTE_ROLE >> \in data_example[1].keys
    /\ ConfigGiven.INTENT_CLASSIFICATION
    /\ ConfigGiven.MASKED_LM
    /\ ~model[1].config.ENTITY_RECOGNITION
    /\ model[1].config.INTENT_CLASSIFICATION
    /\ model[1].config.MASKED_LM

----------------------------------------------------------------------------
(* The temporary checkpoint directory (SpecPersist).                       *)

\* C22: the temporary checkpoint directory is moved into the model
\* directory only by persist, and only when the component holds a trained
\* model: one that a fit has completed on.
C22_CheckpointMovedOnlyWithTrainedModel ==
    [][ persisted'.model_dir.checkpoints # persisted.model_dir.checkpoints
        => /\ last_call'.op = "persist"
           /\ model # NoneObj
           /\ model[1].net.fitted ]_vars

----------------------------------------------------------------------------
(* Properties of the masked-LM loss (SpecMask).                            *)

MaskGiven == last_call.result[1].given
MaskUsed == last_call.result[1].lm_mask_bool

\* C23: the mask _mask_loss selects positions with always has a masked
\* position, and the call does not raise: a mask with a masked position is
\* used as it is, and a mask with none is replaced by one of the same shape
\* where the first position of the first example, and no other, is masked.
C23_MaskNeverEmpty ==
    last_call.op = "_mask_loss"
    => /\ last_call.outcome = "ok"
       /\ last_call.result[1].picked # {}
       /\ Len(MaskUsed) = Len(MaskGiven)
       /\ \A b \in DOMAIN MaskUsed :
             /\ Len(MaskUsed[b]) = Len(MaskGiven[b])
             /\ \A t \in DOMAIN MaskUsed[b] :
                   MaskUsed[b][t]
                     = IF \E c \in DOMAIN MaskGiven : \E u \in DOMAIN MaskGiven[c] :
                             MaskGiven[c][u][1]
                       THEN MaskGiven[b][t][1]
                       ELSE (b = 1 /\ t = 1)

\* a batch of two examples with two positions each and nothing masked: the
\* loss is taken at the first position of the first example
C23_Witness ==
    /\ last_call.op = "_mask_loss"
    /\ MaskGiven = << << << FALSE >>, << FALSE >> >>, << << FALSE >>, << FALSE >> >> >>
    /\ MaskUsed = << << TRUE, FALSE >>, << FALSE, FALSE >> >>
    /\ last_call.result[1].picked = { << 1, 1 >> }

----------------------------------------------------------------------------
(* The label index and the model (SpecPersist).                            *)

\* C24: whenever the component holds a model that scores intents, the
\* component's index_label_id_mapping has an entry for every label id the
\* model scores, so that _predict_label finds a name for every id.
C24_IndexCoversScoredLabels ==
    (model # NoneObj /\ model[1].config.INTENT_CLASSIFICATION)
    => /\ index_label_id_mapping # NoneObj
       /\ \A i \in DOMAIN model[1].label_ids :
             HasKey(index_label_id_mapping[1], model[1].label_ids[i])

\* C25: whenever the component's model is not None, its label data and its
\* data example are set too (persist writes both), also in a component that
\* load returned.
C25_ModelComesWithLabelDataAndExample ==
    model # NoneObj => (label_data # NoneObj /\ data_example # NoneObj)

----------------------------------------------------------------------------
(* Label ids of the model data (SpecModelData).                            *)

\* C26: when preprocess_train_data builds the model data with intent
\* classification enabled, every example kept for the text features gets a
\* label id: the label ids are as many as the examples kept, the k-th label
\* id is the id of the k-th kept example's label, and the model data the
\* call returns holds these examples and label ids.
C26_LabelIdsAlignWithKeptExamples ==
    (last_call.op = "preprocess_train_data"
     /\ component_config.INTENT_CLASSIFICATION
     /\ label_data # NoneObj)
        => LET label_ids == LabelIdsOf(component_config, KeptExamples,
                                       _invert_mapping(index_label_id_mapping[1]),
                                       INTENT, TRUE)
           IN  /\ Len(label_ids) = Len(KeptExamples)
               /\ \A k \in DOMAIN KeptExamples :
                     << label_ids[k], get(KeptExamples[k], INTENT) >>
                         \in index_label_id_mapping[1]
               /\ ~is_empty(TrainModelData)
                  => /\ TrainModelData.num_examples = Len(KeptExamples)
                     /\ TrainModelData.label_ids = label_ids

----------------------------------------------------------------------------
(* The losses batch_loss sums (SpecDiet).                                  *)

\* C27: whenever batch_loss is called on a model that was built, it has at
\* least one loss to sum, and tf.math.add_n does not raise.
C27_BatchLossHasALoss ==
    last_call.op = "batch_loss"
    => (last_call.result[1].losses # << >> /\ last_call.outcome = "ok")

----------------------------------------------------------------------------
(* The intent and its ranking (SpecRank).                                  *)

\* the confidence of each label by label id: the model's scores, normalised
\* over the top RANKING_LENGTH of them where the configuration asks for it
OwnConfidence ==
    IF component_config.RANKING_LENGTH > 0
       /\ component_config.MODEL_CONFIDENCE = SOFTMAX
    THEN normalize(Flatten(model[1].net.i_scores), component_config.RANKING_LENGTH)
    ELSE Flatten(model[1].net.i_scores)

\* C28: when process has stored a ranking that is not empty, the intent it
\* stored is the first entry of the ranking, and every entry has the name
\* of a label, the hash of that name, and the confidence of that same
\* label; no label is listed twice.
C28_RankingPairsLabelWithOwnScore ==
    (RankingStored /\ message.intent_ranking[1] # << >>)
    => LET ranking == message.intent_ranking[1]
       IN  /\ message.intent[1] = ranking[1]
           /\ \A i \in DOMAIN ranking :
                 /\ \E p \in index_label_id_mapping[1] : p[2] = ranking[i].name
                 /\ ranking[i].id = Some(hash(ranking[i].name))
                 /\ ranking[i].confidence
                      = OwnConfidence[LabelIdOf(ranking[i].name) + 1]
           /\ \A i \in DOMAIN ranking, j \in DOMAIN ranking :
                 i # j => ranking[i].name # ranking[j].name

\* three labels scored 0, 2, 1 with the confidences normalised over the top
\* two: label 1 first with 2/3, then label 2 with 1/3
C28_Witness ==
    /\ RankingStored
    /\ component_config.RANKING_LENGTH = 2
    /\ component_config.MODEL_CONFIDENCE = SOFTMAX
    /\ model[1].net.i_scores = << 0, 2, 1 >>
    /\ Len(message.intent_ranking[1]) = 2
    /\ LabelIdOf(message.intent[1].name) = 1
    /\ message.intent[1].confidence = Rat(2, 3)
    /\ LabelIdOf(message.intent_ranking[1][2].name) = 2
    /\ message.intent_ranking[1][2].confidence = Rat(1, 3)

----------------------------------------------------------------------------
(* Training on a corpus without intents (Spec).                            *)

\* no example of the corpus has an intent
NoIntentIn(td) ==
    \A i \in DOMAIN td.nlu_examples : get(td.nlu_examples[i], INTENT) = None

\* C29: a train call on a corpus in which no example has an intent leaves
\* the component's model, index_label_id_mapping, label data, entity tag
\* specs and data example as they were, with intent classification on or
\* off and with or without entity annotations in the corpus.
C29_TrainWithoutIntentsChangesNothing ==
    [][ (train_calls' = train_calls + 1 /\ NoIntentIn(training_data'))
        => UNCHANGED << model, index_label_id_mapping, label_data,
                        entity_tag_specs, data_example >> ]_vars

\* an entity recogniser without intent classification that has a model is
\* trained on examples that carry entity annotations and no intent
C29_Witness ==
    /\ last_call.op = "train"
    /\ last_call.outcome = "skipped"
    /\ train_calls = 2
    /\ training_data.nlu_examples # << >>
    /\ NoIntentIn(training_data)
    /\ training_data.entities # {}
    /\ ~component_config.INTENT_CLASSIFICATION
    /\ component_config.ENTITY_RECOGNITION
    /\ model # NoneObj
    /\ entity_tag_specs # NoneObj

----------------------------------------------------------------------------
(* The untrained component through persist and load (SpecPersist).         *)

\* the metadata in the model directory has no file entry
MetadataWithoutFile == persisted.meta # NoneObj /\ ~Truthy(persisted.meta[1].file)

\* C30: persist on a component without a model returns, leaves the model
\* directory as it was and gives metadata whose file entry is None; load
\* from metadata without a file entry returns a component without a model,
\* whose prediction is the null label with an empty ranking; and process on
\* a component without a model that came from such metadata returns and,
\* where it sets the intent, sets the null label and an empty ranking.
C30_UntrainedSurvivesPersistence ==
    [][ /\ (last_call'.op = "persist" /\ model = NoneObj)
           => /\ last_call'.outcome = "ok"
              /\ persisted'.model_dir = persisted.model_dir
              /\ persisted'.tmp_checkpoint_dir = persisted.tmp_checkpoint_dir
              /\ persisted'.meta # NoneObj
              /\ persisted'.meta[1].file = None
        /\ (last_call'.op = "load" /\ MetadataWithoutFile)
           => /\ last_call'.outcome = "ok"
              /\ model' = NoneObj
              /\ component_config' = persisted.meta[1].config
              /\ _predict(Component)'.out = NoneObj
              /\ _predict_label(component_config, index_label_id_mapping,
                                _predict(Component).out)'
                   = [ raised |-> FALSE, label |-> NoLabel, label_ranking |-> << >> ]
        /\ (last_call'.op = "process" /\ MetadataWithoutFile /\ model = NoneObj)
           => /\ last_call'.outcome = "ok"
              /\ component_config.INTENT_CLASSIFICATION
                 => /\ message'.intent = Some(NoLabel)
                    /\ message'.intent_ranking = Some(<< >>)
      ]_vars

\* a component whose training was skipped after it had set the label index
\* was persisted; the component loaded from its metadata has neither label
\* index nor model and has processed a message
C30_Witness ==
    /\ last_call = Call("process", "ok", last_call.result)
    /\ MetadataWithoutFile
    /\ persisted.model_dir = EmptyModelDir
    /\ PersistedBy.model = NoneObj
    /\ PersistedBy.index_label_id_mapping # NoneObj
    /\ index_label_id_mapping = NoneObj
    /\ model = NoneObj
    /\ component_config.INTENT_CLASSIFICATION
    /\ message.intent = Some(NoLabel)
    /\ message.intent_ranking = Some(<< >>)

====
